---- MODULE Spec2Model ----
(***************************************************************************)
(* Odds collector: discovery -> scheduling -> execution pipeline over the  *)
(* persistent job queue (JobScheduler on D1) and the snapshot store.       *)
(*                                                                         *)
(* Time is counted in minutes from an arbitrary origin.  ISO timestamps    *)
(* produced by toISOString() have a fixed width, so their text order (the  *)
(* ORDER BY of the queue) is their numeric order.  A NULL text column is   *)
(* Null, a NULL timestamp column is NoTime.                                *)
(***************************************************************************)
EXTENDS Integers, Sequences, FiniteSets, TLC

VARIABLES
    now,        \* wall clock read by Date.now() / CURRENT_TIMESTAMP / datetime('now')
    jobs,       \* table scheduled_jobs: a set of rows
    store,      \* snapshot store: the snapshot objects of the bucket, one per key
    indexes,    \* snapshot store: the index objects of the bucket, one per key
    metrics,    \* table collection_metrics: a set of rows with AUTOINCREMENT id
    proc,       \* per pipeline invocation: position in run() and its locals
    settled,    \* history: a discovery pass ended without any error and no row was deleted since
    credit,     \* disturbances still to come: calls that throw, crashes, operator calls
    feed,       \* version of the fixture list the provider currently reports
    reply,      \* outcome of the last call made by an operator or a maintenance tool
    files,      \* LocalStorage: the directory entries under basePath, each naming an inode
    call,       \* per storage client process: the storage call it is in the middle of
    tally,      \* history, per observed invocation and league: rows inserted, live-odds calls issued
    ledger      \* history, per observed job id: rows inserted, live-odds calls issued by run(), retryJob calls

vars == <<now, jobs, store, indexes, metrics, proc, settled, credit, feed, reply, files, call, tally, ledger>>

Null == "null"
NoTime == -1

(***************************************************************************)
(* Bounds of the model                                                     *)
(***************************************************************************)
MaxJobsPerRun == 2      \* config.maxJobsPerRun of the modelled deployment
MaxDisturbances == 2    \* throwing calls, crashes, retryJob and cleanup calls in one behaviour


\* Clock readings explored, ascending
Instants == <<0, 57>>

InstantSet == {Instants[i] : i \in 1..Len(Instants)}

(***************************************************************************)
(* Configuration and provider fixture                                      *)
(***************************************************************************)
SlackMinutes == 5

\* this.leagues, in Map insertion order
Leagues ==
    << [id |-> "EPL", providerKey |-> "soccer_epl", normalize |-> TRUE],
       [id |-> "L1",  providerKey |-> "soccer_l1",  normalize |-> FALSE] >>

\* this.timings
Timings ==
    << [name |-> "opening", hoursBeforeKickoff |-> 1, markets |-> <<"h2h", "totals">>],
       [name |-> "closing", hoursBeforeKickoff |-> 0, markets |-> <<"h2h">>] >>

\* provider.fetchEvents(providerKey): the provider's current fixture list;
\* from its second version on, the provider reports a later kickoff for e1
FetchEvents(providerKey) ==
    IF providerKey = "soccer_epl"
    THEN << [id |-> "e1", homeTeam |-> "Man Utd", awayTeam |-> "Arsenal",
             commenceTime |-> IF feed = 1 THEN 62 ELSE 70, date |-> "2025-11-30"] >>
    ELSE << [id |-> "e2", homeTeam |-> "PSG", awayTeam |-> "Lyon",
             commenceTime |-> 50, date |-> "2025-07-15"] >>

\* league.normalizeTeamName
NormalizeTeamName(name) ==
    IF name = "Man Utd" THEN "Manchester United" ELSE name

ProviderErrors == {"Request timeout after 30000ms"}
QueueError == "D1_ERROR: network connection lost"
UniqueError == "D1_ERROR: UNIQUE constraint failed: scheduled_jobs.id"
StorageError == "R2Storage: saveSnapshot failed after 3 attempts"

(***************************************************************************)
(* utils/pathUtils                                                         *)
(***************************************************************************)
\* a job id that is not a function of (eventId, timing) alone
GenerateJobIdStamped(eventId, timing) == eventId \o "_" \o timing \o "_" \o ToString(now)

GenerateJobId(eventId, timing) == eventId \o "_" \o timing

\* a scheduled time that ignores the offset
CalculateScheduledTimeAtKickoff(kickoffTime, hoursBeforeKickoff) == kickoffTime

CalculateScheduledTime(kickoffTime, hoursBeforeKickoff) ==
    kickoffTime - hoursBeforeKickoff * 60

\* new Date(matchDate): getFullYear() and getMonth() + 1 of the dates in use
ParseDate(matchDate) ==
    IF matchDate = "2025-11-30" THEN [year |-> 2025, month |-> 11]
                                ELSE [year |-> 2025, month |-> 7]

InferSeasonFromDate(matchDate) ==
    LET year == ParseDate(matchDate).year
        month == ParseDate(matchDate).month
    IN  IF month >= 8
        THEN ToString(year) \o "-" \o ToString(year + 1)
        ELSE ToString(year - 1) \o "-" \o ToString(year)

\* teamName.replace(/\s+/g, '_') from character i on: every run of spaces
\* becomes one underscore
RECURSIVE ReplaceSpaces(_, _)
ReplaceSpaces(s, i) ==
    IF i > Len(s) THEN ""
    ELSE IF SubSeq(s, i, i) # " " THEN SubSeq(s, i, i) \o ReplaceSpaces(s, i + 1)
    ELSE IF i > 1 /\ SubSeq(s, i - 1, i - 1) = " " THEN ReplaceSpaces(s, i + 1)
    ELSE "_" \o ReplaceSpaces(s, i + 1)

FormatTeamNameForPath(teamName) == ReplaceSpaces(teamName, 1)

\* eventId.slice(0, 7)
ShortEventId(eventId) ==
    IF Len(eventId) <= 7 THEN eventId ELSE SubSeq(eventId, 1, 7)

GenerateSnapshotPath(leagueId, season, timing, date, homeTeam, awayTeam, eventId) ==
    leagueId \o "/" \o season \o "/snapshots/" \o timing \o "/" \o date \o "/"
        \o FormatTeamNameForPath(homeTeam) \o "_vs_" \o FormatTeamNameForPath(awayTeam)
        \o "_" \o ShortEventId(eventId) \o ".json"

(***************************************************************************)
(* JobScheduler: statements over the scheduled_jobs table                  *)
(***************************************************************************)
\* `value || null` of a bound text parameter
OrNull(s) == IF s = "" THEN Null ELSE s

\* the row INSERTed by scheduleJob, column defaults from the schema
NewJobRow(job, t) ==
    [ id |-> job.id, leagueId |-> job.leagueId, eventId |-> job.eventId,
      homeTeam |-> job.homeTeam, awayTeam |-> job.awayTeam,
      matchDate |-> job.matchDate, kickoffTime |-> job.kickoffTime,
      timingOffset |-> job.timingOffset, scheduledTime |-> job.scheduledTime,
      status |-> "pending", attempts |-> 0, lastAttempt |-> NoTime,
      snapshotPath |-> Null, error |-> Null, createdAt |-> t, completedAt |-> NoTime ]

\* a table whose id column carries no uniqueness constraint
NoPrimaryKey(rows, jobId) == FALSE

\* id TEXT PRIMARY KEY: the INSERT is rejected when a row with that id exists
PrimaryKeyConflict(rows, jobId) == \E r \in rows : r.id = jobId

ScheduleJob(rows, job, t) == rows \cup {NewJobRow(job, t)}

\* getJob: result ? mapRowToJob(result) : null, used for its truthiness
GetJob(rows, jobId) == {r \in rows : r.id = jobId}

\* the UPDATE without its WHERE id = ? clause
UpdateEveryJobStatus(rows, jobId, status, snapshotPath, error, t) ==
    { [r EXCEPT !.status = status,
                !.attempts = @ + 1,
                !.lastAttempt = t,
                !.snapshotPath = IF OrNull(snapshotPath) = Null THEN @ ELSE snapshotPath,
                !.error = OrNull(error),
                !.completedAt = IF status \in {"completed", "failed"} THEN t ELSE @]
      : r \in rows }

\* an UPDATE that counts an attempt only when it records an outcome
UpdateJobStatusCountingOutcomes(rows, jobId, status, snapshotPath, error, t) ==
    { IF r.id = jobId
      THEN [r EXCEPT !.status = status,
                     !.attempts = IF status \in {"completed", "failed"} THEN @ + 1 ELSE @,
                     !.lastAttempt = t,
                     !.snapshotPath = IF OrNull(snapshotPath) = Null THEN @ ELSE snapshotPath,
                     !.error = OrNull(error),
                     !.completedAt = IF status \in {"completed", "failed"} THEN t ELSE @]
      ELSE r : r \in rows }

\* an UPDATE that stamps completed_at on every call
UpdateJobStatusStampingCompletion(rows, jobId, status, snapshotPath, error, t) ==
    { IF r.id = jobId
      THEN [r EXCEPT !.status = status,
                     !.attempts = @ + 1,
                     !.lastAttempt = t,
                     !.snapshotPath = IF OrNull(snapshotPath) = Null THEN @ ELSE snapshotPath,
                     !.error = OrNull(error),
                     !.completedAt = t]
      ELSE r : r \in rows }

UpdateJobStatus(rows, jobId, status, snapshotPath, error, t) ==
    { IF r.id = jobId
      THEN [r EXCEPT !.status = status,
                     !.attempts = @ + 1,
                     !.lastAttempt = t,
                     !.snapshotPath = IF OrNull(snapshotPath) = Null THEN @ ELSE snapshotPath,
                     !.error = OrNull(error),
                     !.completedAt = IF status \in {"completed", "failed"} THEN t ELSE @]
      ELSE r : r \in rows }

\* a retry that starts the row afresh: attempts and completion forgotten
RetryJobRowsAfresh(rows, jobId, newScheduledTime) ==
    { IF r.id = jobId
      THEN [r EXCEPT !.status = "pending", !.scheduledTime = newScheduledTime, !.error = Null,
                     !.attempts = 0, !.completedAt = NoTime]
      ELSE r : r \in rows }

RetryJobRows(rows, jobId, newScheduledTime) ==
    { IF r.id = jobId
      THEN [r EXCEPT !.status = "pending", !.scheduledTime = newScheduledTime, !.error = Null]
      ELSE r : r \in rows }

\* the WHERE clause without its time bound
DueRowsNoWindow(rows, minutes, t) == {r \in rows : r.status = "pending"}

\* the WHERE clause without status = 'pending'
DueRowsAnyStatus(rows, minutes, t) == {r \in rows : r.scheduledTime <= t + minutes}

\* a WHERE clause that offers failed rows again: status IN ('pending', 'failed')
DueRowsWithFailed(rows, minutes, t) ==
    {r \in rows : r.status \in {"pending", "failed"} /\ r.scheduledTime <= t + minutes}

\* a WHERE clause that offers the rows left running again
DueRowsWithRunning(rows, minutes, t) ==
    {r \in rows : r.status \in {"pending", "running"} /\ r.scheduledTime <= t + minutes}

\* rows matched by the WHERE clause of getJobsDueWithin
DueRows(rows, minutes, t) ==
    {r \in rows : r.status = "pending" /\ r.scheduledTime <= t + minutes}

\* ORDER BY scheduled_time DESC
OrderedByScheduledTimeDesc(Q) ==
    { s \in [1..Cardinality(Q) -> Q] :
        /\ \A i, j \in 1..Cardinality(Q) : i # j => s[i] # s[j]
        /\ \A i, j \in 1..Cardinality(Q) : i < j => s[i].scheduledTime >= s[j].scheduledTime }

\* ORDER BY scheduled_time ASC: every order of the rows compatible with it
OrderedByScheduledTime(Q) ==
    { s \in [1..Cardinality(Q) -> Q] :
        /\ \A i, j \in 1..Cardinality(Q) : i # j => s[i] # s[j]
        /\ \A i, j \in 1..Cardinality(Q) : i < j => s[i].scheduledTime <= s[j].scheduledTime }

\* LIMIT ?
Limit(s, maxJobs) == IF Len(s) <= maxJobs THEN s ELSE SubSeq(s, 1, maxJobs)

\* the result sets getJobsDueWithin(minutes, maxJobs) can return at time t
GetJobsDueWithin(rows, minutes, maxJobs, t) ==
    { Limit(s, maxJobs) : s \in OrderedByScheduledTime(DueRows(rows, minutes, t)) }

\* a call that returned `value`, a call that threw `error`, no call yet
Returned(op, args, value) == [op |-> op, args |-> args, threw |-> FALSE, value |-> value]
Threw(op, args, error) == [op |-> op, args |-> args, threw |-> TRUE, error |-> error]
NoReply == [op |-> "none"]

\* a DELETE without its status condition
CleanupRowsAnyStatus(rows, daysOld, t) ==
    {r \in rows : r.completedAt < t - daysOld * 1440}

\* rows removed by cleanupOldJobs(daysOld) at time t
CleanupRows(rows, daysOld, t) ==
    {r \in rows : r.status \in {"completed", "failed"} /\ r.completedAt < t - daysOld * 1440}

(***************************************************************************)
(* R2Storage.saveSnapshot                                                  *)
(***************************************************************************)
\* a snapshot id that also carries the collection time
GetSnapshotIdStamped(eventId, timing, date) ==
    eventId \o "_" \o timing \o "_" \o date \o "_" \o ToString(now)

GetSnapshotId(eventId, timing, date) == eventId \o "_" \o timing \o "_" \o date

SnapshotKey(leagueId, season, snapshotId) ==
    "leagues/" \o leagueId \o "/" \o season \o "/" \o snapshotId \o ".json"

\* provider.fetchEventOdds(providerKey, eventId, ...): the event as the provider
\* names it (mapOddsResponse), bookmakers left out
FetchEventOdds(leagueId, eventId) ==
    LET league == CHOOSE l \in {Leagues[i] : i \in 1..Len(Leagues)} : l.id = leagueId
        events == FetchEvents(league.providerKey)
        event == events[CHOOSE i \in 1..Len(events) : events[i].id = eventId]
    IN  [ id |-> event.id, homeTeam |-> event.homeTeam, awayTeam |-> event.awayTeam,
          commenceTime |-> event.commenceTime ]

\* the OddsSnapshot built by executeJobs for a job, collected at time t
Snapshot(job, season, t) ==
    [ timestamp |-> t, date |-> job.matchDate, league |-> job.leagueId, season |-> season,
      snapshotTiming |-> job.timingOffset, eventId |-> job.eventId,
      kickoffTime |-> job.kickoffTime,
      odds |-> FetchEventOdds(job.leagueId, job.eventId) ]

\* a save that resolves without having sent the object
SaveSnapshotUnsent(objects, key, snapshot) == objects

\* PutObject: the object under the key is replaced
SaveSnapshot(objects, key, snapshot) ==
    {o \in objects : o.key # key} \cup {[key |-> key, body |-> snapshot]}

\* key of an index object: getKey('leagues', leagueId, season, `${indexType}.json`)
IndexKey(leagueId, season, indexType) ==
    "leagues/" \o leagueId \o "/" \o season \o "/" \o indexType \o ".json"

\* getIndex: the index objects under the key, none when indexExists is false
GetIndex(objects, leagueId, season, indexType) ==
    {o \in objects : o.key = IndexKey(leagueId, season, indexType)}

\* saveIndex: PutObject, the object under the key is replaced
SaveIndex(objects, leagueId, season, indexType, index) ==
    {o \in objects : o.key # IndexKey(leagueId, season, indexType)}
        \cup {[key |-> IndexKey(leagueId, season, indexType), body |-> index]}

(***************************************************************************)
(* R2Storage reads: getSnapshot, snapshotExists, listSnapshots over the     *)
(* S3 API of the bucket.  Keys are kept relative to the configured          *)
(* basePath.  A call's outcome is [ok |-> TRUE, ...] or [ok |-> FALSE,      *)
(* error |-> [name, message, httpStatusCode]]; NoStatus stands for an       *)
(* error without $metadata.                                                 *)
(***************************************************************************)
MaxRetries == 3     \* config.maxRetries || 3
MaxKeys == 2        \* objects per ListObjectsV2 page
NoStatus == 0
NoToken == 0

NetworkError == [name |-> "TimeoutError", message |-> "socket hang up", httpStatusCode |-> NoStatus]

\* characters of the keys in use, in byte order
Alphabet == "-./0123456789ABCDEFGHIJKLMNOPQRSTUVWXYZ_abcdefghijklmnopqrstuvwxyz"

CharRank(c) == CHOOSE i \in 1..Len(Alphabet) : SubSeq(Alphabet, i, i) = c

\* a < b in the byte order of S3 listings
KeyLess(a, b) ==
    \E i \in 1..(Len(a) + 1) :
       /\ i <= Len(b)
       /\ SubSeq(a, 1, i - 1) = SubSeq(b, 1, i - 1)
       /\ \/ i = Len(a) + 1
          \/ CharRank(SubSeq(a, i, i)) < CharRank(SubSeq(b, i, i))

StartsWith(s, prefix) ==
    Len(s) >= Len(prefix) /\ SubSeq(s, 1, Len(prefix)) = prefix

EndsWith(s, suffix) ==
    Len(s) >= Len(suffix) /\ SubSeq(s, Len(s) - Len(suffix) + 1, Len(s)) = suffix

\* key.split('/').pop()
FileName(key) ==
    LET cut == CHOOSE i \in 0..Len(key) :
                  /\ i = 0 \/ SubSeq(key, i, i) = "/"
                  /\ \A j \in (i + 1)..Len(key) : SubSeq(key, j, j) # "/"
    IN  SubSeq(key, cut + 1, Len(key))

\* getKey('leagues', leagueId, season, ''): empty parts are filtered out, so
\* the prefix ends without a slash
SnapshotPrefix(leagueId, season) == "leagues/" \o leagueId \o "/" \o season

\* GetObjectCommand on a key
GetObject(objects, key) ==
    IF \E o \in objects : o.key = key
    THEN [ok |-> TRUE, body |-> (CHOOSE o \in objects : o.key = key).body]
    ELSE [ok |-> FALSE,
          error |-> [name |-> "NoSuchKey", message |-> "The specified key does not exist.",
                     httpStatusCode |-> 404]]

\* HeadObjectCommand on a key
HeadObject(objects, key) ==
    IF \E o \in objects : o.key = key
    THEN [ok |-> TRUE, body |-> Null]
    ELSE [ok |-> FALSE,
          error |-> [name |-> "NotFound", message |-> "UnknownError", httpStatusCode |-> 404]]

\* the attempts of one operation: the first `fails` are lost to the network,
\* the others get the service's answer
Attempts(fails, answer) ==
    [i \in 1..MaxRetries |-> IF i <= fails THEN [ok |-> FALSE, error |-> NetworkError]
                                           ELSE answer]

\* withRetry: the first attempt that succeeds, or after maxRetries failed
\* attempts a new Error carrying only the last error's message
WithRetry(attempts, operationName) ==
    IF \E i \in 1..MaxRetries : attempts[i].ok
    THEN attempts[CHOOSE i \in 1..MaxRetries :
                     attempts[i].ok /\ \A j \in 1..(i - 1) : ~attempts[j].ok]
    ELSE [ok |-> FALSE,
          error |-> [name |-> "Error",
                     message |-> "R2Storage: " \o operationName \o " failed after "
                                    \o ToString(MaxRetries) \o " attempts: "
                                    \o attempts[MaxRetries].error.message,
                     httpStatusCode |-> NoStatus]]

\* getSnapshot, `fails` attempts of its GetObject lost to the network
GetSnapshot(objects, leagueId, season, snapshotId, fails) ==
    LET key == SnapshotKey(leagueId, season, snapshotId)
        response == WithRetry(Attempts(fails, GetObject(objects, key)),
                              "getSnapshot(" \o key \o ")")
    IN  IF response.ok THEN Returned("getSnapshot", <<key, fails>>, response.body)
        ELSE IF response.error.name = "NoSuchKey" \/ response.error.httpStatusCode = 404
        THEN Returned("getSnapshot", <<key, fails>>, Null)
        ELSE Threw("getSnapshot", <<key, fails>>, response.error)

\* snapshotExists, `fails` attempts of its HeadObject lost to the network
SnapshotExists(objects, leagueId, season, snapshotId, fails) ==
    LET key == SnapshotKey(leagueId, season, snapshotId)
        response == WithRetry(Attempts(fails, HeadObject(objects, key)),
                              "snapshotExists(" \o key \o ")")
    IN  IF response.ok THEN Returned("snapshotExists", <<key, fails>>, TRUE)
        ELSE IF response.error.name = "NotFound" \/ response.error.httpStatusCode = 404
        THEN Returned("snapshotExists", <<key, fails>>, FALSE)
        ELSE Threw("snapshotExists", <<key, fails>>, response.error)

\* the keys of the bucket that start with the prefix, in listing order
RECURSIVE SortedKeys(_)
SortedKeys(keys) ==
    IF keys = {} THEN <<>>
    ELSE LET least == CHOOSE k \in keys : \A other \in keys \ {k} : KeyLess(k, other)
         IN  <<least>> \o SortedKeys(keys \ {least})

\* ListObjectsV2Command: one page of at most MaxKeys keys from the token on,
\* and the token of the next page when the listing is truncated
ListObjectsV2(objects, prefix, token) ==
    LET all == SortedKeys({o.key : o \in {x \in objects : StartsWith(x.key, prefix)}})
        first == IF token = NoToken THEN 1 ELSE token
        last == IF first + MaxKeys - 1 < Len(all) THEN first + MaxKeys - 1 ELSE Len(all)
    IN  [ok |-> TRUE, contents |-> SubSeq(all, first, last),
         next |-> IF last < Len(all) THEN last + 1 ELSE NoToken]

\* the ids pushed for one page: file names ending in .json, without the extension
RECURSIVE PageIds(_)
PageIds(contents) ==
    IF contents = <<>> THEN <<>>
    ELSE LET fileName == FileName(contents[Len(contents)])
         IN  PageIds(SubSeq(contents, 1, Len(contents) - 1))
                \o (IF fileName # "" /\ EndsWith(fileName, ".json")
                    THEN <<SubSeq(fileName, 1, Len(fileName) - 5)>> ELSE <<>>)

\* a listing that returns what its first page holds
ListSnapshotsFirstPage(objects, prefix, token, snapshotIds, page, lostPage) ==
    LET response == WithRetry(Attempts(IF page = lostPage THEN MaxRetries ELSE 0,
                                       ListObjectsV2(objects, prefix, token)),
                              "listSnapshots(" \o prefix \o ")")
    IN  IF ~response.ok THEN Threw("listSnapshots", prefix, response.error)
        ELSE Returned("listSnapshots", prefix, snapshotIds \o PageIds(response.contents))

\* the do-while loop of listSnapshots from page number `page` on; every
\* attempt of page `lostPage` is lost to the network (none when 0)
RECURSIVE ListSnapshotsFrom(_, _, _, _, _, _)
ListSnapshotsFrom(objects, prefix, token, snapshotIds, page, lostPage) ==
    LET response == WithRetry(Attempts(IF page = lostPage THEN MaxRetries ELSE 0,
                                       ListObjectsV2(objects, prefix, token)),
                              "listSnapshots(" \o prefix \o ")")
    IN  IF ~response.ok THEN Threw("listSnapshots", prefix, response.error)
        ELSE IF response.next # NoToken
        THEN ListSnapshotsFrom(objects, prefix, response.next,
                               snapshotIds \o PageIds(response.contents), page + 1, lostPage)
        ELSE Returned("listSnapshots", prefix, snapshotIds \o PageIds(response.contents))

ListSnapshots(objects, leagueId, season, lostPage) ==
    ListSnapshotsFrom(objects, SnapshotPrefix(leagueId, season), NoToken, <<>>, 1, lostPage)

(***************************************************************************)
(* IndexBuilder.  A match index holds `matches`, the entries in insertion  *)
(* order, each with its matchKey and the set `snapshots` of                *)
(* [timing, path] pairs.                                                   *)
(***************************************************************************)
GenerateMatchKey(homeTeam, awayTeam, date) ==
    FormatTeamNameForPath(homeTeam) \o "_" \o FormatTeamNameForPath(awayTeam) \o "_" \o date

\* an iteration that keeps the location already recorded for the timing
ApplyDescriptorKeepingFirst(matches, d) ==
    LET matchKey == GenerateMatchKey(d.homeTeam, d.awayTeam, d.matchDate)
        base == IF \E i \in 1..Len(matches) : matches[i].matchKey = matchKey
                THEN matches
                ELSE Append(matches,
                            [ matchKey |-> matchKey, homeTeam |-> d.homeTeam,
                              awayTeam |-> d.awayTeam, matchDate |-> d.matchDate,
                              eventId |-> d.eventId, kickoffTime |-> d.kickoffTime,
                              snapshots |-> {} ])
    IN  [ i \in 1..Len(base) |->
            IF base[i].matchKey = matchKey /\ \A sn \in base[i].snapshots : sn.timing # d.timing
            THEN [base[i] EXCEPT !.snapshots = @ \cup {[timing |-> d.timing, path |-> d.path]}]
            ELSE base[i] ]

\* one iteration of the for-of loop of updateMatchIndex: get or create the
\* entry of the descriptor's match key, then entry.snapshots[timing] = path
ApplyDescriptor(matches, d) ==
    LET matchKey == GenerateMatchKey(d.homeTeam, d.awayTeam, d.matchDate)
        base == IF \E i \in 1..Len(matches) : matches[i].matchKey = matchKey
                THEN matches
                ELSE Append(matches,
                            [ matchKey |-> matchKey, homeTeam |-> d.homeTeam,
                              awayTeam |-> d.awayTeam, matchDate |-> d.matchDate,
                              eventId |-> d.eventId, kickoffTime |-> d.kickoffTime,
                              snapshots |-> {} ])
    IN  [ i \in 1..Len(base) |->
            IF base[i].matchKey = matchKey
            THEN [base[i] EXCEPT !.snapshots = {sn \in @ : sn.timing # d.timing}
                                     \cup {[timing |-> d.timing, path |-> d.path]}]
            ELSE base[i] ]

\* for (const snapshot of snapshots): the first k descriptors applied in order
RECURSIVE ApplyDescriptors(_, _, _)
ApplyDescriptors(matches, snapshots, k) ==
    IF k = 0 THEN matches
    ELSE ApplyDescriptor(ApplyDescriptors(matches, snapshots, k - 1), snapshots[k])

\* updateMatchIndex: load the match index or start an empty one, apply the
\* descriptors, stamp lastUpdated, save
UpdateMatchIndex(objects, leagueId, season, snapshots, t) ==
    LET found == GetIndex(objects, leagueId, season, "by_match")
        index == IF found = {}
                 THEN [ leagueId |-> leagueId, season |-> season, lastUpdated |-> t,
                        matches |-> <<>> ]
                 ELSE (CHOOSE o \in found : TRUE).body
    IN  SaveIndex(objects, leagueId, season, "by_match",
                  [index EXCEPT !.matches = ApplyDescriptors(@, snapshots, Len(snapshots)),
                                !.lastUpdated = t])

\* dateMap[date]: the match keys pushed for that date, in entry order
RECURSIVE MatchKeysOn(_, _)
MatchKeysOn(matches, date) ==
    IF matches = <<>> THEN <<>>
    ELSE LET n == Len(matches)
         IN  MatchKeysOn(SubSeq(matches, 1, n - 1), date)
                 \o (IF matches[n].matchDate = date THEN <<matches[n].matchKey>> ELSE <<>>)

\* teamMap[team]: the match keys pushed for that team, home before away, in entry order
RECURSIVE MatchKeysOf(_, _)
MatchKeysOf(matches, team) ==
    IF matches = <<>> THEN <<>>
    ELSE LET n == Len(matches)
             e == matches[n]
         IN  MatchKeysOf(SubSeq(matches, 1, n - 1), team)
                 \o (IF FormatTeamNameForPath(e.homeTeam) = team THEN <<e.matchKey>> ELSE <<>>)
                 \o (IF FormatTeamNameForPath(e.awayTeam) = team THEN <<e.matchKey>> ELSE <<>>)

\* getAvailableTimings: the timings present in the entries of the given match keys
GetAvailableTimings(matches, matchKeys) ==
    UNION { {sn.timing : sn \in matches[i].snapshots} :
              i \in {j \in 1..Len(matches) :
                        \E k \in 1..Len(matchKeys) : matchKeys[k] = matches[j].matchKey} }

\* a build that adds the dates found to the date index already stored
BuildDateIndexMerging(objects, leagueId, season, t) ==
    LET found == GetIndex(objects, leagueId, season, "by_match")
        old == GetIndex(objects, leagueId, season, "by_date")
    IN  IF found = {} THEN objects
        ELSE LET matches == (CHOOSE o \in found : TRUE).body.matches
                 stored == IF old = {} THEN <<>> ELSE (CHOOSE o \in old : TRUE).body.dates
                 dates == {matches[i].matchDate : i \in 1..Len(matches)}
             IN  SaveIndex(objects, leagueId, season, "by_date",
                     [ leagueId |-> leagueId, season |-> season, lastUpdated |-> t,
                       dates |-> [ d \in dates \cup DOMAIN stored |->
                           IF d \in dates
                           THEN [ matchCount |-> Len(MatchKeysOn(matches, d)),
                                  matches |-> MatchKeysOn(matches, d),
                                  snapshotTimingsAvailable |->
                                      GetAvailableTimings(matches, MatchKeysOn(matches, d)) ]
                           ELSE stored[d] ] ])

\* buildDateIndex: nothing is written when the match index is absent
BuildDateIndex(objects, leagueId, season, t) ==
    LET found == GetIndex(objects, leagueId, season, "by_match")
    IN  IF found = {} THEN objects
        ELSE LET matches == (CHOOSE o \in found : TRUE).body.matches
                 dates == {matches[i].matchDate : i \in 1..Len(matches)}
             IN  SaveIndex(objects, leagueId, season, "by_date",
                     [ leagueId |-> leagueId, season |-> season, lastUpdated |-> t,
                       dates |-> [ d \in dates |->
                           [ matchCount |-> Len(MatchKeysOn(matches, d)),
                             matches |-> MatchKeysOn(matches, d),
                             snapshotTimingsAvailable |->
                                 GetAvailableTimings(matches, MatchKeysOn(matches, d)) ] ] ])

\* a build that appends the keys found to the lists of the team index already stored
BuildTeamIndexAppending(objects, leagueId, season, t) ==
    LET found == GetIndex(objects, leagueId, season, "by_match")
        old == GetIndex(objects, leagueId, season, "by_team")
    IN  IF found = {} THEN objects
        ELSE LET matches == (CHOOSE o \in found : TRUE).body.matches
                 stored == IF old = {} THEN <<>> ELSE (CHOOSE o \in old : TRUE).body.teams
                 teams == {FormatTeamNameForPath(matches[i].homeTeam) : i \in 1..Len(matches)}
                            \cup {FormatTeamNameForPath(matches[i].awayTeam) : i \in 1..Len(matches)}
                 Keys(tm) == (IF tm \in DOMAIN stored THEN stored[tm].matches ELSE <<>>)
                                \o MatchKeysOf(matches, tm)
             IN  SaveIndex(objects, leagueId, season, "by_team",
                     [ leagueId |-> leagueId, season |-> season, lastUpdated |-> t,
                       teams |-> [ tm \in teams |->
                           [ matchCount |-> Len(Keys(tm)), matches |-> Keys(tm) ] ] ])

\* buildTeamIndex: nothing is written when the match index is absent
BuildTeamIndex(objects, leagueId, season, t) ==
    LET found == GetIndex(objects, leagueId, season, "by_match")
    IN  IF found = {} THEN objects
        ELSE LET matches == (CHOOSE o \in found : TRUE).body.matches
                 teams == {FormatTeamNameForPath(matches[i].homeTeam) : i \in 1..Len(matches)}
                            \cup {FormatTeamNameForPath(matches[i].awayTeam) : i \in 1..Len(matches)}
             IN  SaveIndex(objects, leagueId, season, "by_team",
                     [ leagueId |-> leagueId, season |-> season, lastUpdated |-> t,
                       teams |-> [ tm \in teams |->
                           [ matchCount |-> Len(MatchKeysOf(matches, tm)),
                             matches |-> MatchKeysOf(matches, tm) ] ] ])

\* buildAllIndexes: the date index, then the team index
BuildAllIndexes(objects, leagueId, season, t) ==
    BuildTeamIndex(BuildDateIndex(objects, leagueId, season, t), leagueId, season, t)

(***************************************************************************)
(* Worker: the scheduled handler runs the collector, then builds indexes   *)
(***************************************************************************)
\* new Date() of the clock readings explored: all within the day of 2025-11-30
CurrentDate(t) == [year |-> 2025, month |-> 11]

InferCurrentSeason(t) ==
    LET year == CurrentDate(t).year
        month == CurrentDate(t).month
    IN  IF month < 8
        THEN ToString(year - 1) \o "-" \o ToString(year)
        ELSE ToString(year) \o "-" \o ToString(year + 1)

\* for (const leagueId of leagueIds) buildAllIndexes(leagueId, inferCurrentSeason())
RECURSIVE BuildLeagueIndexes(_, _, _)
BuildLeagueIndexes(objects, k, t) ==
    IF k = 0 THEN objects
    ELSE BuildAllIndexes(BuildLeagueIndexes(objects, k - 1, t),
                         Leagues[k].id, InferCurrentSeason(t), t)

(***************************************************************************)
(* OddsCollector: one invocation of run()                                  *)
(***************************************************************************)
DayOf(t) == t \div 1440

EmptyMetrics(leagueId, day) ==
    [ date |-> day, leagueId |-> leagueId, jobsScheduled |-> 0, jobsCompleted |-> 0,
      jobsFailed |-> 0, apiRequests |-> 0, apiCostTokens |-> 0 ]

\* provider.estimateCost('live_odds', markets, regions)
EstimateCostLiveOdds(marketCount, regions) == marketCount * regions

\* nothing inserted and nothing requested yet, for every configured league, and
\* no operator call (retryJob, cleanup) since the invocation began
NoTally ==
    [ inserted  |-> [l \in {Leagues[i].id : i \in 1..Len(Leagues)} |-> 0],
      requested |-> [l \in {Leagues[i].id : i \in 1..Len(Leagues)} |-> 0],
      disturbed |-> FALSE ]

\* no row, no call and no retry yet, for every job id discovery can produce
NoLedger ==
    [ id \in UNION { { GenerateJobId(FetchEvents(Leagues[l].providerKey)[e].id, Timings[t].name) :
                         e \in 1..Len(FetchEvents(Leagues[l].providerKey)), t \in 1..Len(Timings) } :
                     l \in 1..Len(Leagues) }
        |-> [inserts |-> 0, calls |-> 0, retries |-> 0] ]

\* the history of an invocation is dropped when the invocation has nothing left
\* to flush
Forget(p) == tally' = [q \in DOMAIN tally |-> IF q = p THEN NoTally ELSE tally[q]]

\* the history with n more rows inserted and n more calls issued for a job
Inserted(p, job, n) ==
    /\ tally' = [q \in DOMAIN tally |->
                    IF q = p THEN [tally[q] EXCEPT !.inserted[job.leagueId] = @ + n] ELSE tally[q]]
    /\ ledger' = [id \in DOMAIN ledger |->
                     IF id = job.id THEN [ledger[id] EXCEPT !.inserts = @ + n] ELSE ledger[id]]

Requested(p, job, n) ==
    /\ tally' = [q \in DOMAIN tally |->
                    IF q = p THEN [tally[q] EXCEPT !.requested[job.leagueId] = @ + n] ELSE tally[q]]
    /\ ledger' = [id \in DOMAIN ledger |->
                     IF id = job.id THEN [ledger[id] EXCEPT !.calls = @ + n] ELSE ledger[id]]

Retried(jobId, n) ==
    ledger' = [id \in DOMAIN ledger |->
                  IF id = jobId THEN [ledger[id] EXCEPT !.retries = @ + n] ELSE ledger[id]]

\* an operator call is noted by the invocations that may still flush
Disturb ==
    tally' = [p \in DOMAIN tally |->
                 IF proc[p].pc \in {"idle", "rejected", "summary", "buildIndexes"}
                 THEN tally[p] ELSE [tally[p] EXCEPT !.disturbed = TRUE]]

Idle ==
    [ pc |-> "idle", dnow |-> NoTime, li |-> 0, ei |-> 0, ti |-> 0,
      derr |-> {}, dirty |-> FALSE, basis |-> FALSE, rested |-> TRUE,
      dueJobs |-> <<>>, bi |-> 0, metricsMap |-> <<>> ]

\* run() is over and the invocation keeps nothing: its promise resolved (or the
\* worker died), or it rejected with the exception that escaped
Ended(p, outcome) ==
    [Idle EXCEPT !.pc = IF outcome \in {"finished", "crashed"} THEN "idle" ELSE "rejected"]

Set(p, rec) == proc' = [proc EXCEPT ![p] = rec]

\* n calls of this step throw
Thrown(n) == credit >= n /\ credit' = credit - n

League(p) == Leagues[proc[p].li]
Events(p) == FetchEvents(League(p).providerKey)
Event(p)  == Events(p)[proc[p].ei]
Timing(p) == Timings[proc[p].ti]
Job(p)    == proc[p].dueJobs[proc[p].bi]

\* run(): Phase 1 begins; `now` is read once for the whole discovery pass
RunStart(p) ==
    /\ proc[p].pc \in {"idle", "rejected"}
    /\ Set(p, [Idle EXCEPT !.pc = "fetchEvents", !.dnow = now, !.li = 1,
                           !.basis = settled])
    /\ Forget(p)
    /\ UNCHANGED <<ledger, files, call, feed, reply, now, jobs, store, indexes, metrics, settled, credit>>

\* the next league of the for-of loop, or the end of discoverEvents;
\* `rested`: this.delay(this.requestDelay) was awaited since the league's fetch
AfterLeague(p, derr, rested) ==
    IF proc[p].li < Len(Leagues)
    THEN /\ Set(p, [proc[p] EXCEPT !.pc = "fetchEvents", !.li = @ + 1, !.derr = derr,
                                   !.ei = 0, !.ti = 0, !.rested = rested])
         /\ UNCHANGED settled
    ELSE /\ Set(p, [proc[p] EXCEPT !.pc = "select", !.derr = derr,
                                   !.li = 0, !.ei = 0, !.ti = 0, !.rested = rested])
         /\ settled' = (settled \/ (derr = {} /\ ~proc[p].dirty))

\* a catch that ends the whole discovery pass instead of the league
LeagueFailedEndsPass(p, message) ==
    /\ Set(p, [proc[p] EXCEPT !.pc = "select", !.li = 0, !.ei = 0, !.ti = 0,
                              !.rested = FALSE,
                              !.derr = @ \cup {[league |-> League(p).id, error |-> message]}])
    /\ UNCHANGED settled

\* catch (error) of the league's try block: logs, awaits nothing
LeagueFailed(p, message) ==
    AfterLeague(p, proc[p].derr \cup {[league |-> League(p).id, error |-> message]}, FALSE)

\* the next (event, timing) of the nested loops, or the end of the league
AfterTiming(p) ==
    IF proc[p].ti < Len(Timings)
    THEN /\ Set(p, [proc[p] EXCEPT !.pc = "getJob", !.ti = @ + 1])
         /\ UNCHANGED settled
    ELSE IF proc[p].ei < Len(Events(p))
    THEN /\ Set(p, [proc[p] EXCEPT !.pc = "getJob", !.ei = @ + 1, !.ti = 1])
         /\ UNCHANGED settled
    ELSE AfterLeague(p, proc[p].derr, TRUE)

\* provider.fetchEvents(league.providerKey)
DiscoverFetchEvents(p) ==
    /\ proc[p].pc = "fetchEvents"
    /\ \/ IF Len(Events(p)) = 0
          THEN AfterLeague(p, proc[p].derr, TRUE) /\ UNCHANGED credit
          ELSE /\ Set(p, [proc[p] EXCEPT !.pc = "getJob", !.ei = 1, !.ti = 1,
                                         !.rested = FALSE])
               /\ UNCHANGED <<settled, credit>>
       \/ \E e \in ProviderErrors : LeagueFailed(p, e) /\ Thrown(1)
    /\ UNCHANGED <<ledger, tally, files, call, feed, reply, now, jobs, store, indexes, metrics>>

\* a discovery that refreshes the row it finds from the provider's current data
DiscoverGetJobRefreshing(p) ==
    /\ proc[p].pc = "getJob"
    /\ LET scheduledTime == CalculateScheduledTime(Event(p).commenceTime,
                                                   Timing(p).hoursBeforeKickoff)
           jobId == GenerateJobId(Event(p).id, Timing(p).name)
       IN  IF scheduledTime < proc[p].dnow
           THEN AfterTiming(p) /\ UNCHANGED <<credit, jobs>>
           ELSE \/ /\ IF GetJob(jobs, jobId) # {}
                      THEN /\ AfterTiming(p)
                           /\ jobs' = { IF r.id = jobId
                                        THEN [r EXCEPT !.kickoffTime = Event(p).commenceTime,
                                                       !.scheduledTime = scheduledTime]
                                        ELSE r : r \in jobs }
                      ELSE /\ Set(p, [proc[p] EXCEPT !.pc = "scheduleJob"])
                           /\ UNCHANGED <<settled, jobs>>
                   /\ UNCHANGED credit
                \/ LeagueFailed(p, QueueError) /\ Thrown(1) /\ UNCHANGED jobs
    /\ UNCHANGED <<ledger, tally, files, call, feed, reply, now, store, indexes, metrics>>

\* one (event, timing): scheduled time, past check, job id, scheduler.getJob
DiscoverGetJob(p) ==
    /\ proc[p].pc = "getJob"
    /\ LET scheduledTime == CalculateScheduledTime(Event(p).commenceTime,
                                                   Timing(p).hoursBeforeKickoff)
           jobId == GenerateJobId(Event(p).id, Timing(p).name)
       IN  IF scheduledTime < proc[p].dnow
           THEN AfterTiming(p) /\ UNCHANGED credit
           ELSE \/ /\ IF GetJob(jobs, jobId) # {}
                      THEN AfterTiming(p)
                      ELSE /\ Set(p, [proc[p] EXCEPT !.pc = "scheduleJob"])
                           /\ UNCHANGED settled
                   /\ UNCHANGED credit
                \/ LeagueFailed(p, QueueError) /\ Thrown(1)
    /\ UNCHANGED <<ledger, tally, files, call, feed, reply, now, jobs, store, indexes, metrics>>

\* scheduler.scheduleJob({...}) for the current (event, timing)
DiscoverScheduleJob(p) ==
    /\ proc[p].pc = "scheduleJob"
    /\ LET league == League(p)
           event == Event(p)
           job == [ id |-> GenerateJobId(event.id, Timing(p).name),
                    leagueId |-> league.id,
                    eventId |-> event.id,
                    homeTeam |-> IF league.normalize THEN NormalizeTeamName(event.homeTeam)
                                                     ELSE event.homeTeam,
                    awayTeam |-> IF league.normalize THEN NormalizeTeamName(event.awayTeam)
                                                     ELSE event.awayTeam,
                    matchDate |-> event.date,
                    kickoffTime |-> event.commenceTime,
                    timingOffset |-> Timing(p).name,
                    scheduledTime |-> CalculateScheduledTime(event.commenceTime,
                                                             Timing(p).hoursBeforeKickoff) ]
       IN  \/ /\ IF PrimaryKeyConflict(jobs, job.id)
                 THEN LeagueFailed(p, UniqueError) /\ UNCHANGED <<jobs, tally, ledger>>
                 ELSE /\ jobs' = ScheduleJob(jobs, job, now) /\ AfterTiming(p)
                      /\ Inserted(p, job, 1)
              /\ UNCHANGED credit
           \/ LeagueFailed(p, QueueError) /\ Thrown(1) /\ UNCHANGED <<jobs, tally, ledger>>
    /\ UNCHANGED <<files, call, feed, reply, now, store, indexes, metrics>>

\* metricsMap.get(metricsKey), created on first use; the map keeps insertion order
Bump(mm, leagueId, day, completed, failed, requests, cost) ==
    LET has == \E i \in 1..Len(mm) : mm[i].leagueId = leagueId /\ mm[i].date = day
        base == IF has THEN mm ELSE Append(mm, EmptyMetrics(leagueId, day))
    IN  [ i \in 1..Len(base) |->
            IF base[i].leagueId = leagueId /\ base[i].date = day
            THEN [base[i] EXCEPT !.jobsCompleted = @ + completed,
                                 !.jobsFailed = @ + failed,
                                 !.apiRequests = @ + requests,
                                 !.apiCostTokens = @ + cost]
            ELSE base[i] ]

\* the next job of the for-of loop over dueJobs, or the metrics flush after it
AfterJob(p, mm) ==
    IF proc[p].bi < Len(proc[p].dueJobs)
    THEN Set(p, [proc[p] EXCEPT !.pc = "markRunning", !.bi = @ + 1, !.metricsMap = mm,
                                !.rested = TRUE])
    ELSE Set(p, [proc[p] EXCEPT !.pc = "recordMetrics", !.metricsMap = mm, !.rested = TRUE])

\* a catch block that logs the error and goes on to the next job
CatchLoggingOnly(p, rows, message, thrown) ==
    /\ jobs' = rows
    /\ AfterJob(p, Bump(proc[p].metricsMap, Job(p).leagueId, DayOf(now), 0, 1, 0, 0))
    /\ Thrown(thrown)

\* catch (error) of the job's try block, entered with the table as `rows`:
\* the unguarded updateJobStatus(job.id, 'failed', undefined, message)
\* (`thrown` calls have thrown so far in this step)
Catch(p, rows, message, thrown) ==
    \/ /\ jobs' = UpdateJobStatus(rows, Job(p).id, "failed", "", message, now)
       /\ AfterJob(p, Bump(proc[p].metricsMap, Job(p).leagueId, DayOf(now), 0, 1, 0, 0))
       /\ Thrown(thrown)
    \/ /\ jobs' = rows
       /\ Set(p, Ended(p, "update_failed"))
       /\ Thrown(thrown + 1)

\* a due-job query that marks the rows it returns running in the same statement
ExecuteSelectClaiming(p) ==
    /\ proc[p].pc = "select"
    /\ \E batch \in GetJobsDueWithin(jobs, SlackMinutes, MaxJobsPerRun, now) :
         /\ IF Len(batch) = 0
            THEN Set(p, [proc[p] EXCEPT !.pc = "summary", !.derr = {}])
            ELSE Set(p, [proc[p] EXCEPT !.pc = "markRunning", !.derr = {},
                                        !.dueJobs = batch, !.bi = 1])
         /\ jobs' = { IF \E i \in 1..Len(batch) : batch[i].id = r.id
                      THEN [r EXCEPT !.status = "running"] ELSE r : r \in jobs }
    /\ UNCHANGED <<ledger, tally, files, call, feed, reply, now, store, indexes, metrics, settled, credit>>

\* scheduler.getJobsDueWithin(5, this.maxJobsPerRun)
ExecuteSelect(p) ==
    /\ proc[p].pc = "select"
    /\ \/ /\ \E batch \in GetJobsDueWithin(jobs, SlackMinutes, MaxJobsPerRun, now) :
            IF Len(batch) = 0
            THEN Set(p, [proc[p] EXCEPT !.pc = "summary", !.derr = {}])
            ELSE Set(p, [proc[p] EXCEPT !.pc = "markRunning", !.derr = {},
                                        !.dueJobs = batch, !.bi = 1])
          /\ UNCHANGED credit
       \/ Set(p, Ended(p, "query_failed")) /\ Thrown(1)
    /\ IF proc'[p].pc = "markRunning" THEN UNCHANGED tally ELSE Forget(p)
    /\ UNCHANGED <<ledger, files, call, feed, reply, now, jobs, store, indexes, metrics, settled>>

\* an executor that marks the rest of its batch running before working on it
ExecuteMarkBatchRunning(p) ==
    /\ proc[p].pc = "markRunning"
    /\ jobs' = { IF \E i \in proc[p].bi..Len(proc[p].dueJobs) : proc[p].dueJobs[i].id = r.id
                 THEN [r EXCEPT !.status = "running", !.attempts = @ + 1, !.lastAttempt = now]
                 ELSE r : r \in jobs }
    /\ Set(p, [proc[p] EXCEPT !.pc = "fetchOdds"])
    /\ UNCHANGED <<ledger, tally, files, call, feed, reply, now, store, indexes, metrics, settled, credit>>

\* scheduler.updateJobStatus(job.id, 'running')
ExecuteMarkRunning(p) ==
    /\ proc[p].pc = "markRunning"
    /\ \/ /\ jobs' = UpdateJobStatus(jobs, Job(p).id, "running", "", "", now)
          /\ Set(p, [proc[p] EXCEPT !.pc = "fetchOdds"])
          /\ UNCHANGED credit
       \/ Catch(p, jobs, QueueError, 1)
    /\ UNCHANGED <<ledger, tally, files, call, feed, reply, now, store, indexes, metrics, settled>>

LeagueConfigured(leagueId) == \E i \in 1..Len(Leagues) : Leagues[i].id = leagueId
TimingConfigured(name) == \E i \in 1..Len(Timings) : Timings[i].name = name
TimingNamed(name) == CHOOSE t \in {Timings[i] : i \in 1..Len(Timings)} : t.name = name

\* leagues.get / timings.find, then provider.fetchEventOdds
ExecuteFetchOdds(p) ==
    /\ proc[p].pc = "fetchOdds"
    /\ IF ~LeagueConfigured(Job(p).leagueId)
       THEN Catch(p, jobs, "League config not found: " \o Job(p).leagueId, 0)
            /\ UNCHANGED <<tally, ledger>>
       ELSE IF ~TimingConfigured(Job(p).timingOffset)
       THEN Catch(p, jobs, "Timing config not found: " \o Job(p).timingOffset, 0)
            /\ UNCHANGED <<tally, ledger>>
       ELSE /\ \/ /\ Set(p, [proc[p] EXCEPT !.pc = "saveSnapshot", !.rested = FALSE])
                  /\ UNCHANGED <<jobs, credit>>
               \/ \E e \in ProviderErrors : Catch(p, jobs, e, 1)
            /\ Requested(p, Job(p), 1)
    /\ UNCHANGED <<files, call, feed, reply, now, store, indexes, metrics, settled>>

\* storage.saveSnapshot(job.leagueId, season, snapshot)
ExecuteSaveSnapshot(p) ==
    /\ proc[p].pc = "saveSnapshot"
    /\ LET job == Job(p)
           season == InferSeasonFromDate(job.matchDate)
           key == SnapshotKey(job.leagueId, season,
                              GetSnapshotId(job.eventId, job.timingOffset, job.matchDate))
       IN  \/ /\ store' = SaveSnapshot(store, key, Snapshot(job, season, now))
              /\ Set(p, [proc[p] EXCEPT !.pc = "markCompleted"])
              /\ UNCHANGED <<jobs, credit>>
           \/ Catch(p, jobs, StorageError, 1) /\ UNCHANGED store
    /\ UNCHANGED <<ledger, tally, files, call, feed, reply, now, indexes, metrics, settled>>

\* scheduler.updateJobStatus(job.id, 'completed', snapshotPath) and the metrics update
ExecuteMarkCompleted(p) ==
    /\ proc[p].pc = "markCompleted"
    /\ LET job == Job(p)
           snapshotPath == GenerateSnapshotPath(job.leagueId, InferSeasonFromDate(job.matchDate),
                               job.timingOffset, job.matchDate, job.homeTeam, job.awayTeam,
                               job.eventId)
           marketCount == Len(TimingNamed(job.timingOffset).markets)
       IN  \/ /\ jobs' = UpdateJobStatus(jobs, job.id, "completed", snapshotPath, "", now)
              /\ AfterJob(p, Bump(proc[p].metricsMap, job.leagueId, DayOf(now), 1, 0, 1,
                                  EstimateCostLiveOdds(marketCount, 1)))
              /\ UNCHANGED credit
           \/ Catch(p, jobs, QueueError, 1)
    /\ UNCHANGED <<ledger, tally, files, call, feed, reply, now, store, indexes, metrics, settled>>

\* INSERT INTO collection_metrics: id INTEGER PRIMARY KEY AUTOINCREMENT
RecordMetrics(table, m) ==
    table \cup {[ id |-> Cardinality(table) + 1, date |-> m.date, leagueId |-> m.leagueId,
                  jobsScheduled |-> m.jobsScheduled, jobsCompleted |-> m.jobsCompleted,
                  jobsFailed |-> m.jobsFailed, apiRequests |-> m.apiRequests,
                  apiCostTokens |-> m.apiCostTokens ]}

RECURSIVE RecordAll(_, _, _)
RecordAll(table, mm, k) ==
    IF k = 0 THEN table ELSE RecordMetrics(RecordAll(table, mm, k - 1), mm[k])

\* for (const metrics of metricsMap.values()) await scheduler.recordMetrics(metrics)
ExecuteRecordMetrics(p) ==
    /\ proc[p].pc = "recordMetrics"
    /\ \E k \in 0..Len(proc[p].metricsMap) :
         /\ metrics' = RecordAll(metrics, proc[p].metricsMap, k)
         /\ IF k = Len(proc[p].metricsMap)
            THEN /\ Set(p, [proc[p] EXCEPT !.pc = "summary", !.dueJobs = <<>>, !.bi = 0,
                                           !.metricsMap = <<>>])
                 /\ UNCHANGED credit
            ELSE Set(p, Ended(p, "flush_failed")) /\ Thrown(1)
    /\ Forget(p)
    /\ UNCHANGED <<ledger, files, call, feed, reply, now, jobs, store, indexes, settled>>

\* run(): Phase 3, scheduler.getSummary()
RunSummary(p) ==
    /\ proc[p].pc = "summary"
    /\ \/ Set(p, [Idle EXCEPT !.pc = "buildIndexes"]) /\ UNCHANGED credit
       \/ Set(p, Ended(p, "summary_failed")) /\ Thrown(1)
    /\ UNCHANGED <<ledger, tally, files, call, feed, reply, now, jobs, store, indexes, metrics, settled>>

\* scheduled(): after collector.run() has returned, build the indexes of every league
WorkerBuildIndexes(p) ==
    /\ proc[p].pc = "buildIndexes"
    /\ indexes' = BuildLeagueIndexes(indexes, Len(Leagues), now)
    /\ Set(p, Ended(p, "finished"))
    /\ UNCHANGED <<ledger, tally, files, call, feed, reply, now, jobs, store, metrics, settled, credit>>

\* the worker running the invocation dies between two awaits
Crash(p) ==
    /\ proc[p].pc \notin {"idle", "rejected"}
    /\ Set(p, Ended(p, "crashed"))
    /\ Thrown(1)
    /\ Forget(p)
    /\ UNCHANGED <<ledger, files, call, feed, reply, now, jobs, store, indexes, metrics, settled>>

(***************************************************************************)
(* Environment: the clock and the operator's calls                         *)
(***************************************************************************)
Tick ==
    /\ \E i \in 1..(Len(Instants) - 1) : now = Instants[i] /\ now' = Instants[i + 1]
    /\ UNCHANGED <<ledger, tally, files, call, feed, reply, jobs, store, indexes, metrics, proc, settled, credit>>

\* scheduler.retryJob(jobId, newScheduledTime)
RetryJob ==
    /\ \E r \in jobs, t \in {now, now + 60} :
         /\ jobs' = RetryJobRows(jobs, r.id, t)
         /\ Retried(r.id, 1)
    /\ Disturb
    /\ Thrown(1)
    /\ UNCHANGED <<files, call, feed, reply, now, store, indexes, metrics, proc, settled>>

DaysOldInputs == {0, 90}

\* collector.cleanup(daysOld) -> scheduler.cleanupOldJobs(daysOld)
Cleanup ==
    /\ \E d \in DaysOldInputs :
         LET removed == CleanupRows(jobs, d, now)
         IN  /\ removed # {}
             /\ jobs' = jobs \ removed
             /\ reply' = Returned("cleanupOldJobs", d, Cardinality(removed))
    /\ settled' = FALSE
    /\ proc' = [p \in DOMAIN proc |-> [proc[p] EXCEPT !.dirty = TRUE, !.basis = FALSE]]
    /\ Disturb
    /\ Thrown(1)
    /\ UNCHANGED <<ledger, files, call, feed, now, store, indexes, metrics>>

Init ==
    /\ now = Instants[1]
    /\ jobs = {}
    /\ store = {}
    /\ indexes = {}
    /\ metrics = {}
    /\ proc = [p \in {1} |-> Idle]
    /\ settled = FALSE
    /\ credit = MaxDisturbances
    /\ feed = 1
    /\ reply = NoReply
    /\ files = {}
    /\ call = <<>>
    /\ tally = <<>>
    /\ ledger = <<>>

Next ==
    \/ \E p \in DOMAIN proc : RunStart(p)
    \/ \E p \in DOMAIN proc : DiscoverFetchEvents(p)
    \/ \E p \in DOMAIN proc : DiscoverGetJob(p)
    \/ \E p \in DOMAIN proc : DiscoverScheduleJob(p)
    \/ \E p \in DOMAIN proc : ExecuteSelect(p)
    \/ \E p \in DOMAIN proc : ExecuteMarkRunning(p)
    \/ \E p \in DOMAIN proc : ExecuteFetchOdds(p)
    \/ \E p \in DOMAIN proc : ExecuteSaveSnapshot(p)
    \/ \E p \in DOMAIN proc : ExecuteMarkCompleted(p)
    \/ \E p \in DOMAIN proc : ExecuteRecordMetrics(p)
    \/ \E p \in DOMAIN proc : RunSummary(p)
    \/ \E p \in DOMAIN proc : WorkerBuildIndexes(p)
    \/ \E p \in DOMAIN proc : Crash(p)
    \/ Tick
    \/ RetryJob
    \/ Cleanup

Spec == Init /\ [][Next]_vars

\* the same pipeline with the history of its invocations and jobs recorded
InitHistory ==
    /\ now = Instants[1]
    /\ jobs = {}
    /\ store = {}
    /\ indexes = {}
    /\ metrics = {}
    /\ proc = [p \in {1} |-> Idle]
    /\ settled = FALSE
    /\ credit = MaxDisturbances
    /\ feed = 1
    /\ reply = NoReply
    /\ files = {}
    /\ call = <<>>
    /\ tally = [p \in DOMAIN proc |-> NoTally]
    /\ ledger = NoLedger

SpecHistory == InitHistory /\ [][Next]_vars

(***************************************************************************)
(* Two invocations of run() overlapping on the same queue and store, with  *)
(* no disturbance: nothing throws, nobody crashes, the operator is absent  *)
(***************************************************************************)
InitOverlap ==
    /\ now = Instants[1]
    /\ jobs = {}
    /\ store = {}
    /\ indexes = {}
    /\ metrics = {}
    /\ proc = [p \in {1, 2} |-> Idle]
    /\ settled = FALSE
    /\ credit = 0
    /\ feed = 1
    /\ reply = NoReply
    /\ files = {}
    /\ call = <<>>
    /\ tally = <<>>
    /\ ledger = <<>>

NextOverlap ==
    \/ \E p \in DOMAIN proc : RunStart(p)
    \/ \E p \in DOMAIN proc : DiscoverFetchEvents(p)
    \/ \E p \in DOMAIN proc : DiscoverGetJob(p)
    \/ \E p \in DOMAIN proc : DiscoverScheduleJob(p)
    \/ \E p \in DOMAIN proc : ExecuteSelect(p)
    \/ \E p \in DOMAIN proc : ExecuteMarkRunning(p)
    \/ \E p \in DOMAIN proc : ExecuteFetchOdds(p)
    \/ \E p \in DOMAIN proc : ExecuteSaveSnapshot(p)
    \/ \E p \in DOMAIN proc : ExecuteMarkCompleted(p)
    \/ \E p \in DOMAIN proc : ExecuteRecordMetrics(p)
    \/ \E p \in DOMAIN proc : RunSummary(p)
    \/ \E p \in DOMAIN proc : WorkerBuildIndexes(p)
    \/ Tick

SpecOverlap == InitOverlap /\ [][NextOverlap]_vars

(***************************************************************************)
(* One invocation of run() at a time, no disturbance, against a provider   *)
(* that changes what it reports for a fixture already discovered           *)
(***************************************************************************)
\* the provider moves e1's kickoff.  An invocation works on the answers it
\* has fetched, so the change is seen by the provider calls that follow it.
ProviderReschedules ==
    /\ feed = 1 /\ feed' = 2
    /\ \A p \in DOMAIN proc : proc[p].pc \notin {"getJob", "scheduleJob", "saveSnapshot"}
    /\ UNCHANGED <<ledger, tally, files, call, now, jobs, store, indexes, metrics, proc, settled, credit, reply>>

InitFeed ==
    /\ now = Instants[1]
    /\ jobs = {}
    /\ store = {}
    /\ indexes = {}
    /\ metrics = {}
    /\ proc = [p \in {1} |-> Idle]
    /\ settled = FALSE
    /\ credit = 0
    /\ feed = 1
    /\ reply = NoReply
    /\ files = {}
    /\ call = <<>>
    /\ tally = <<>>
    /\ ledger = <<>>

NextFeed ==
    \/ \E p \in DOMAIN proc : RunStart(p)
    \/ \E p \in DOMAIN proc : DiscoverFetchEvents(p)
    \/ \E p \in DOMAIN proc : DiscoverGetJob(p)
    \/ \E p \in DOMAIN proc : DiscoverScheduleJob(p)
    \/ \E p \in DOMAIN proc : ExecuteSelect(p)
    \/ \E p \in DOMAIN proc : ExecuteMarkRunning(p)
    \/ \E p \in DOMAIN proc : ExecuteFetchOdds(p)
    \/ \E p \in DOMAIN proc : ExecuteSaveSnapshot(p)
    \/ \E p \in DOMAIN proc : ExecuteMarkCompleted(p)
    \/ \E p \in DOMAIN proc : ExecuteRecordMetrics(p)
    \/ \E p \in DOMAIN proc : RunSummary(p)
    \/ \E p \in DOMAIN proc : WorkerBuildIndexes(p)
    \/ Tick
    \/ ProviderReschedules

SpecFeed == InitFeed /\ [][NextFeed]_vars

(***************************************************************************)
(* IndexBuilder on its own: updateMatchIndex, buildAllIndexes and the       *)
(* clearIndexes of the repair tool, called in any order on the index        *)
(* artifacts of one league and season, with descriptor batches drawn from   *)
(* a small set                                                              *)
(***************************************************************************)
IndexLeague == "EPL"
IndexSeason == "2025-2026"

MaxBatch == 2    \* descriptors in one updateMatchIndex call

\* snapshot descriptors: two offsets of one fixture, a second location for
\* one of them, a second fixture of one of its teams on another date
Descriptors ==
    { [ homeTeam |-> "Manchester United", awayTeam |-> "Arsenal", matchDate |-> "2025-11-30",
        eventId |-> "e1", timing |-> "opening", kickoffTime |-> 62,
        path |-> "EPL/2025-2026/e1_opening_2025-11-30.json" ],
      [ homeTeam |-> "Manchester United", awayTeam |-> "Arsenal", matchDate |-> "2025-11-30",
        eventId |-> "e1", timing |-> "closing", kickoffTime |-> 62,
        path |-> "EPL/2025-2026/e1_closing_2025-11-30.json" ],
      [ homeTeam |-> "Manchester United", awayTeam |-> "Arsenal", matchDate |-> "2025-11-30",
        eventId |-> "e1", timing |-> "opening", kickoffTime |-> 62,
        path |-> "EPL/2025-2026/snapshots/opening/2025-11-30/Manchester_United_vs_Arsenal_e1.json" ],
      [ homeTeam |-> "Aston Villa", awayTeam |-> "Arsenal", matchDate |-> "2025-12-06",
        eventId |-> "e3", timing |-> "closing", kickoffTime |-> 70,
        path |-> "EPL/2025-2026/e3_closing_2025-12-06.json" ] }

Batches == UNION { [1..n -> Descriptors] : n \in 1..MaxBatch }

IndexTypes == {"by_match", "by_date", "by_team"}

\* indexBuilder.updateMatchIndex(leagueId, season, batch)
CallUpdateMatchIndex ==
    /\ \E batch \in Batches :
          indexes' = UpdateMatchIndex(indexes, IndexLeague, IndexSeason, batch, now)
    /\ reply' = Returned("updateMatchIndex", IndexLeague, Null)
    /\ UNCHANGED <<ledger, tally, files, call, now, jobs, store, metrics, proc, settled, credit, feed>>

\* indexBuilder.buildAllIndexes(leagueId, season)
CallBuildAllIndexes ==
    /\ indexes' = BuildAllIndexes(indexes, IndexLeague, IndexSeason, now)
    /\ reply' = Returned("buildAllIndexes", IndexLeague, Null)
    /\ UNCHANGED <<ledger, tally, files, call, now, jobs, store, metrics, proc, settled, credit, feed>>

\* clearIndexes of the repair tool: one DeleteObject per index type, a
\* failed delete is logged and the loop goes on
ClearIndexes ==
    /\ \E failed \in SUBSET IndexTypes :
          indexes' = { o \in indexes :
                          \A ty \in IndexTypes \ failed :
                             o.key # IndexKey(IndexLeague, IndexSeason, ty) }
    /\ reply' = Returned("clearIndexes", IndexLeague, Null)
    /\ UNCHANGED <<ledger, tally, files, call, now, jobs, store, metrics, proc, settled, credit, feed>>

InitIndex ==
    /\ now = Instants[1]
    /\ jobs = {}
    /\ store = {}
    /\ indexes = {}
    /\ metrics = {}
    /\ proc = [p \in {1} |-> Idle]
    /\ settled = FALSE
    /\ credit = 0
    /\ feed = 1
    /\ reply = NoReply
    /\ files = {}
    /\ call = <<>>
    /\ tally = <<>>
    /\ ledger = <<>>

NextIndex ==
    \/ CallUpdateMatchIndex
    \/ CallBuildAllIndexes
    \/ ClearIndexes
    \/ Tick

SpecIndex == InitIndex /\ [][NextIndex]_vars

(***************************************************************************)
(* R2Storage on its own: snapshots and a match index are saved, and the     *)
(* read methods are called on present and absent ids, with network losses   *)
(***************************************************************************)
\* the jobs discovery creates for the fixture list, as executeJobs reads them
StorageJobs ==
    { [ leagueId |-> Leagues[l].id,
        eventId |-> FetchEvents(Leagues[l].providerKey)[e].id,
        matchDate |-> FetchEvents(Leagues[l].providerKey)[e].date,
        kickoffTime |-> FetchEvents(Leagues[l].providerKey)[e].commenceTime,
        timingOffset |-> Timings[t].name ] :
      l \in 1..Len(Leagues), e \in {1}, t \in 1..Len(Timings) }

\* (league, season) pairs the read methods are called with
StorageTargets ==
    { [leagueId |-> j.leagueId, season |-> InferSeasonFromDate(j.matchDate)] : j \in StorageJobs }

\* snapshot ids the read methods are called with: every id that can be
\* stored, and one that never is
StorageIds ==
    {GetSnapshotId(j.eventId, j.timingOffset, j.matchDate) : j \in StorageJobs}
        \cup {"e9_opening_2025-11-30"}

\* attempts lost to the network before the service answers
LostAttempts == {0, 1, MaxRetries}

\* storage.saveSnapshot(leagueId, season, snapshot)
PutSnapshot ==
    /\ \E job \in StorageJobs :
          LET season == InferSeasonFromDate(job.matchDate)
              key == SnapshotKey(job.leagueId, season,
                                 GetSnapshotId(job.eventId, job.timingOffset, job.matchDate))
          IN  /\ store' = SaveSnapshot(store, key, Snapshot(job, season, now))
              /\ reply' = Returned("saveSnapshot", key, Null)
    /\ UNCHANGED <<ledger, tally, files, call, now, jobs, indexes, metrics, proc, settled, credit, feed>>

\* storage.saveIndex(leagueId, season, 'by_match', index) of an empty match index
PutMatchIndex ==
    /\ indexes' = SaveIndex(indexes, IndexLeague, IndexSeason, "by_match",
                            [ leagueId |-> IndexLeague, season |-> IndexSeason,
                              lastUpdated |-> now, matches |-> <<>> ])
    /\ reply' = Returned("saveIndex", IndexKey(IndexLeague, IndexSeason, "by_match"), Null)
    /\ UNCHANGED <<ledger, tally, files, call, now, jobs, store, metrics, proc, settled, credit, feed>>

\* storage.getSnapshot(leagueId, season, snapshotId)
CallGetSnapshot ==
    /\ \E target \in StorageTargets, id \in StorageIds, fails \in LostAttempts :
          reply' = GetSnapshot(store \cup indexes, target.leagueId, target.season, id, fails)
    /\ UNCHANGED <<ledger, tally, files, call, now, jobs, store, indexes, metrics, proc, settled, credit, feed>>

\* storage.snapshotExists(leagueId, season, snapshotId)
CallSnapshotExists ==
    /\ \E target \in StorageTargets, id \in StorageIds, fails \in LostAttempts :
          reply' = SnapshotExists(store \cup indexes, target.leagueId, target.season, id, fails)
    /\ UNCHANGED <<ledger, tally, files, call, now, jobs, store, indexes, metrics, proc, settled, credit, feed>>

\* storage.listSnapshots(leagueId, season)
CallListSnapshots ==
    /\ \E target \in StorageTargets, lostPage \in 0..2 :
          reply' = ListSnapshots(store \cup indexes, target.leagueId, target.season, lostPage)
    /\ UNCHANGED <<ledger, tally, files, call, now, jobs, store, indexes, metrics, proc, settled, credit, feed>>

InitStorage ==
    /\ now = Instants[1]
    /\ jobs = {}
    /\ store = {}
    /\ indexes = {}
    /\ metrics = {}
    /\ proc = [p \in {1} |-> Idle]
    /\ settled = FALSE
    /\ credit = 0
    /\ feed = 1
    /\ reply = NoReply
    /\ files = {}
    /\ call = <<>>
    /\ tally = <<>>
    /\ ledger = <<>>

NextStorage ==
    \/ PutSnapshot
    \/ PutMatchIndex
    \/ CallGetSnapshot
    \/ CallSnapshotExists
    \/ CallListSnapshots

SpecStorage == InitStorage /\ [][NextStorage]_vars

(***************************************************************************)
(* The operator's tools, scripts/rebuildIndexes and                        *)
(* scripts/repair-production-data, run on the bucket and the queue that    *)
(* the worker writes.  Each rebuilds the match index of a league/season    *)
(* through updateMatchIndex and then the derived indexes.                  *)
(***************************************************************************)
MaxToolRuns == 2        \* runs of the tools in one behaviour

BasePath == "odds_data_v2"      \* CONFIG.BASE_PATH, the basePath of every R2Storage

\* CONFIG.LEAGUES
RepairLeagues == <<"EPL", "L1">>

Upper == "ABCDEFGHIJKLMNOPQRSTUVWXYZ"
Lower == "abcdefghijklmnopqrstuvwxyz"

\* String.prototype.toLowerCase, from character i on
RECURSIVE ToLowerCaseFrom(_, _)
ToLowerCaseFrom(s, i) ==
    IF i > Len(s) THEN ""
    ELSE LET c == SubSeq(s, i, i)
             ks == {k \in 1..Len(Upper) : SubSeq(Upper, k, k) = c}
         IN  (IF ks = {} THEN c ELSE SubSeq(Lower, CHOOSE k \in ks : TRUE, CHOOSE k \in ks : TRUE))
                \o ToLowerCaseFrom(s, i + 1)

ToLowerCase(s) == ToLowerCaseFrom(s, 1)

\* String.prototype.includes
Includes(s, sub) ==
    \E i \in 1..(Len(s) - Len(sub) + 1) : SubSeq(s, i, i + Len(sub) - 1) = sub

\* the operator runs a tool while no invocation of the worker is under way
BetweenInvocations == \A p \in DOMAIN proc : proc[p].pc \in {"idle", "rejected"}

\* !snapshot, for a value that is null or an object
IsNull(value) == ToString(value) = ToString(Null)

\* rebuildIndexes: the descriptors of the first k listed ids.  An id whose
\* getSnapshot throws or returns null is skipped, and so is an object without
\* odds (an index file under the same prefix), on which the loop body throws
RECURSIVE SnapshotMetadata(_, _, _, _, _, _)
SnapshotMetadata(objects, leagueId, season, snapshotIds, unread, k) ==
    IF k = 0 THEN <<>>
    ELSE LET rest == SnapshotMetadata(objects, leagueId, season, snapshotIds, unread, k - 1)
             snapshotId == snapshotIds[k]
             got == GetSnapshot(objects, leagueId, season, snapshotId,
                                IF snapshotId \in unread THEN MaxRetries ELSE 0)
         IN  IF got.threw THEN rest
             ELSE IF IsNull(got.value) THEN rest
             ELSE IF "odds" \notin DOMAIN got.value THEN rest
             ELSE Append(rest,
                         [ homeTeam |-> got.value.odds.homeTeam,
                           awayTeam |-> got.value.odds.awayTeam,
                           matchDate |-> got.value.date,
                           eventId |-> got.value.eventId,
                           timing |-> got.value.snapshotTiming,
                           path |-> leagueId \o "/" \o season \o "/" \o snapshotId \o ".json",
                           kickoffTime |-> got.value.odds.commenceTime ])

\* updateMatchIndex(leagueId, season, snapshots) followed by
\* buildAllIndexes(leagueId, season), as every tool calls them
UpdateAndBuild(objects, leagueId, season, snapshots, t) ==
    CHOOSE built \in { BuildAllIndexes(updated, leagueId, season, t) :
                         updated \in {UpdateMatchIndex(objects, leagueId, season, snapshots, t)} } :
       TRUE

\* rebuildIndexes(leagueId, season); every attempt of page `lostPage` of the
\* listing and of the reads of the ids in `unread` is lost to the network
RebuildIndexes ==
    /\ BetweenInvocations
    /\ credit > 0 /\ credit' = credit - 1
    /\ \E target \in StorageTargets, lostPage \in 0..1 :
       \E bucket \in {store \cup indexes} :
       \E listing \in {ListSnapshots(bucket, target.leagueId, target.season, lostPage)} :
          IF listing.threw
          THEN /\ reply' = Threw("rebuildIndexes", <<target.leagueId, target.season>>,
                                 listing.error)
               /\ UNCHANGED indexes
          ELSE \E unread \in {{}} \cup {{listing.value[i]} : i \in 1..Len(listing.value)} :
               \E snapshotMetadata \in
                     {SnapshotMetadata(bucket, target.leagueId, target.season,
                                       listing.value, unread, Len(listing.value))} :
                  /\ reply' = Returned("rebuildIndexes", <<target.leagueId, target.season>>,
                                       Len(snapshotMetadata))
                  /\ indexes' =
                       IF snapshotMetadata = <<>> THEN indexes
                       ELSE UpdateAndBuild(indexes, target.leagueId, target.season,
                                           snapshotMetadata, now)
    /\ UNCHANGED <<ledger, tally, files, call, now, jobs, store, metrics, proc, settled, feed>>

\* the bucket's keys as listAllR2Objects sees them, basePath included
ListAllR2Objects(objects) == {BasePath \o "/" \o o.key : o \in objects}

\* getAllD1Jobs: every row, ORDER BY created_at DESC
GetAllD1Jobs(rows) ==
    { order \in [1..Cardinality(rows) -> rows] :
        /\ \A i, j \in DOMAIN order : i # j => order[i] # order[j]
        /\ \A i, j \in DOMAIN order : i < j => order[i].createdAt >= order[j].createdAt }

GenerateNewPath(job) ==
    job.eventId \o "_" \o job.timingOffset \o "_" \o job.matchDate \o ".json"

InferSeason(matchDate) ==
    LET year == ParseDate(matchDate).year
        month == ParseDate(matchDate).month
    IN  IF month < 8
        THEN ToString(year - 1) \o "-" \o ToString(year)
        ELSE ToString(year) \o "-" \o ToString(year + 1)

ExpectedNewPath(job) ==
    BasePath \o "/leagues/" \o job.leagueId \o "/" \o InferSeason(job.matchDate)
        \o "/" \o GenerateNewPath(job)

\* findMatchingR2Key(job, r2Objects, basePath) finds a key
HasMatchingR2Key(job, r2Objects) ==
    \/ ExpectedNewPath(job) \in r2Objects
    \/ job.snapshotPath \notin {Null, ""} /\ job.snapshotPath \in r2Objects
    \/ \E key \in r2Objects :
          /\ Includes(key, job.eventId)
          /\ Includes(key, job.timingOffset)
          /\ Includes(key, job.matchDate)

\* auditData: the path mismatches that have a new path
PathMismatches(rows, r2Objects) ==
    { job \in rows :
        /\ job.status = "completed"
        /\ job.snapshotPath \notin {Null, ""}
        /\ job.snapshotPath # ExpectedNewPath(job)
        /\ HasMatchingR2Key(job, r2Objects) }

\* auditData: the missing snapshots that can be refetched, those of completed
\* jobs without an object and of failed jobs, whose kickoff is still to come
Refetchable(rows, r2Objects, t) ==
    { job \in rows :
        /\ \/ job.status = "completed" /\ ~HasMatchingR2Key(job, r2Objects)
           \/ job.status = "failed"
        /\ job.kickoffTime > t }

\* fetchMissingData: in a live run every refetchable job gets its odds fetched
\* and saved, and its row set to completed with the value saveSnapshot
\* returns (none) as snapshot_path; a dry run lists the jobs and returns
FetchMissingData(rows, snapshots, r2Objects, dryRun, t) ==
    CHOOSE fetched \in
        { IF refetchable = {} \/ dryRun
          THEN [jobs |-> rows, store |-> snapshots]
          ELSE [ jobs |-> { IF job \in refetchable
                            THEN [job EXCEPT !.status = "completed",
                                             !.snapshotPath = "undefined",
                                             !.completedAt = t,
                                             !.error = Null]
                            ELSE job : job \in rows },
                 store |-> { o \in snapshots :
                               \A job \in refetchable :
                                  o.key # SnapshotKey(job.leagueId, InferSeason(job.matchDate),
                                             GetSnapshotId(job.eventId, job.timingOffset,
                                                           job.matchDate)) }
                           \cup { [ key |-> SnapshotKey(job.leagueId, InferSeason(job.matchDate),
                                               GetSnapshotId(job.eventId, job.timingOffset,
                                                             job.matchDate)),
                                    body |-> Snapshot(job, InferSeason(job.matchDate), t) ] :
                                  job \in refetchable } ] :
          refetchable \in {Refetchable(rows, r2Objects, t)} } : TRUE

\* a step 1 that updates the rows in a dry run too
RepairPathsRegardless(rows, r2Objects, dryRun) ==
    CHOOSE repaired \in
        { { IF job \in pathMismatches
            THEN [job EXCEPT !.snapshotPath = ExpectedNewPath(job)]
            ELSE job : job \in rows } :
          pathMismatches \in {PathMismatches(rows, r2Objects)} } : TRUE

\* repairAndRebuild step 1: UPDATE scheduled_jobs SET snapshot_path per
\* mismatch; a dry run prints the mismatches
RepairPaths(rows, r2Objects, dryRun) ==
    CHOOSE repaired \in
        { { IF job \in pathMismatches /\ ~dryRun
            THEN [job EXCEPT !.snapshotPath = ExpectedNewPath(job)]
            ELSE job : job \in rows } :
          pathMismatches \in {PathMismatches(rows, r2Objects)} } : TRUE

\* the index keys step 2 sends a DeleteObject for: the three index types of
\* every season that a job of a configured league has
ClearedKeys(rows) ==
    { IndexKey(job.leagueId, InferSeason(job.matchDate), indexType) :
        job \in {j \in rows : \E k \in 1..Len(RepairLeagues) : RepairLeagues[k] = j.leagueId},
        indexType \in IndexTypes }

\* the seasons of a list of jobs, in order of first appearance (jobsBySeason)
RECURSIVE SeasonsOf(_)
SeasonsOf(completedJobs) ==
    IF completedJobs = <<>> THEN <<>>
    ELSE LET n == Len(completedJobs)
             rest == SeasonsOf(SubSeq(completedJobs, 1, n - 1))
             season == InferSeason(completedJobs[n].matchDate)
         IN  IF \E i \in 1..Len(rest) : rest[i] = season THEN rest ELSE Append(rest, season)

\* a descriptor built from a job row, team names lowercased
JobMetadata(job) ==
    [ homeTeam |-> ToLowerCase(job.homeTeam),
      awayTeam |-> ToLowerCase(job.awayTeam),
      matchDate |-> job.matchDate,
      eventId |-> job.eventId,
      timing |-> job.timingOffset,
      path |-> job.snapshotPath,
      kickoffTime |-> job.kickoffTime ]

\* repairAndRebuild step 2: with --clear-indexes, in a live run, a DeleteObject
\* for every key of ClearedKeys; `undeleted` are the keys whose delete fails
ClearAll(objects, rows, clearIndexes, dryRun, undeleted) ==
    IF clearIndexes /\ ~dryRun
    THEN {o \in objects : o.key \notin ClearedKeys(rows) \ undeleted}
    ELSE objects

\* repairAndRebuild step 3 for the first k seasons of a league; a dry run
\* goes on to the next season
RECURSIVE RebuildSeasons(_, _, _, _, _, _, _)
RebuildSeasons(objects, completedJobs, leagueId, seasons, k, dryRun, t) ==
    IF k = 0 THEN objects
    ELSE LET InSeason(job) == InferSeason(job.matchDate) = seasons[k]
             seasonJobs == SelectSeq(completedJobs, InSeason)
             snapshotsMetadata == [i \in 1..Len(seasonJobs) |-> JobMetadata(seasonJobs[i])]
         IN  CHOOSE rebuilt \in
                 { IF dryRun THEN before
                   ELSE UpdateAndBuild(before, leagueId, seasons[k], snapshotsMetadata, t) :
                     before \in {RebuildSeasons(objects, completedJobs, leagueId,
                                                seasons, k - 1, dryRun, t)} } : TRUE

\* repairAndRebuild step 3 for the first k configured leagues
RECURSIVE RebuildLeagues(_, _, _, _, _)
RebuildLeagues(objects, freshD1Jobs, k, dryRun, t) ==
    IF k = 0 THEN objects
    ELSE LET Completed(job) ==
                 /\ job.leagueId = RepairLeagues[k]
                 /\ job.status = "completed"
                 /\ job.snapshotPath \notin {Null, ""}
             completedJobs == SelectSeq(freshD1Jobs, Completed)
         IN  CHOOSE rebuilt \in
                 { IF completedJobs = <<>> THEN before
                   ELSE RebuildSeasons(before, completedJobs, RepairLeagues[k],
                                       SeasonsOf(completedJobs),
                                       Len(SeasonsOf(completedJobs)), dryRun, t) :
                     before \in {RebuildLeagues(objects, freshD1Jobs, k - 1, dryRun, t)} } :
                TRUE

\* repair-production-data [--dry-run] [--fetch-missing] [--clear-indexes]:
\* audit, fetchMissingData and a second audit when asked for, then
\* repairAndRebuild.  Every provider call and every save of the fetch succeeds;
\* `undeleted` holds the index key whose DeleteObject fails, if one does
\* (clearIndexes logs the error and goes on).
RepairProductionData ==
    /\ BetweenInvocations
    /\ credit > 0 /\ credit' = credit - 1
    /\ \E dryRun \in BOOLEAN, fetchMissing \in BOOLEAN, clearIndexes \in BOOLEAN :
       \E fetched \in {IF fetchMissing
                       THEN FetchMissingData(jobs, store,
                                             ListAllR2Objects(store \cup indexes), dryRun, now)
                       ELSE [jobs |-> jobs, store |-> store]} :
       \E repaired \in {RepairPaths(fetched.jobs,
                                    ListAllR2Objects(fetched.store \cup indexes), dryRun)} :
       \E undeleted \in {{}} \cup {{o.key} : o \in {x \in indexes : clearIndexes /\ ~dryRun}} :
       \E kept \in {ClearAll(indexes, fetched.jobs, clearIndexes, dryRun, undeleted)} :
       \E freshD1Jobs \in GetAllD1Jobs(repaired) :
          /\ jobs' = repaired
          /\ store' = fetched.store
          /\ indexes' = RebuildLeagues(kept, freshD1Jobs, Len(RepairLeagues), dryRun, now)
          /\ reply' = Returned("repair-production-data",
                               <<dryRun, fetchMissing, clearIndexes>>, Null)
    /\ UNCHANGED <<ledger, tally, files, call, now, metrics, proc, settled, feed>>

InitTools ==
    /\ now = Instants[1]
    /\ jobs = {}
    /\ store = {}
    /\ indexes = {}
    /\ metrics = {}
    /\ proc = [p \in {1} |-> Idle]
    /\ settled = FALSE
    /\ credit = MaxToolRuns
    /\ feed = 1
    /\ reply = NoReply
    /\ files = {}
    /\ call = <<>>
    /\ tally = <<>>
    /\ ledger = <<>>

NextTools ==
    \/ \E p \in DOMAIN proc : RunStart(p)
    \/ \E p \in DOMAIN proc : DiscoverFetchEvents(p)
    \/ \E p \in DOMAIN proc : DiscoverGetJob(p)
    \/ \E p \in DOMAIN proc : DiscoverScheduleJob(p)
    \/ \E p \in DOMAIN proc : ExecuteSelect(p)
    \/ \E p \in DOMAIN proc : ExecuteMarkRunning(p)
    \/ \E p \in DOMAIN proc : ExecuteFetchOdds(p)
    \/ \E p \in DOMAIN proc : ExecuteSaveSnapshot(p)
    \/ \E p \in DOMAIN proc : ExecuteMarkCompleted(p)
    \/ \E p \in DOMAIN proc : ExecuteRecordMetrics(p)
    \/ \E p \in DOMAIN proc : RunSummary(p)
    \/ \E p \in DOMAIN proc : WorkerBuildIndexes(p)
    \/ Tick
    \/ RebuildIndexes
    \/ RepairProductionData

SpecTools == InitTools /\ [][NextTools]_vars

(***************************************************************************)
(* LocalStorage: files under basePath.  A directory entry names an inode,  *)
(* and the content of an inode is the sequence of the blocks written to    *)
(* it.  writeFileSync opens the path with O_TRUNC and writes the text      *)
(* block by block from position 0; renameSync moves the directory entry.   *)
(* The calls of one process do not interleave (they are synchronous), the  *)
(* system calls of different processes on the same basePath do.            *)
(***************************************************************************)
Blocks == 2         \* blocks of the JSON text of one artifact
MaxSaves == 2       \* save calls of one client process in one behaviour

LocalProcs == {1, 2}

\* getPath(leagueId, season, `${snapshotId}.json`)
LocalSnapshotPath(leagueId, season, snapshotId) ==
    leagueId \o "/" \o season \o "/" \o snapshotId \o ".json"

\* getPath(leagueId, season, 'index', `${indexType}.json`)
LocalIndexPath(leagueId, season, indexType) ==
    leagueId \o "/" \o season \o "/index/" \o indexType \o ".json"

\* the files the clients save and read: one snapshot and one index
LocalPaths ==
    { LocalSnapshotPath(IndexLeague, IndexSeason, "e1_opening_2025-11-30"),
      LocalIndexPath(IndexLeague, IndexSeason, "by_match") }

\* filePath + '.tmp'
TempPath(filePath) == filePath \o ".tmp"

\* a block of a file that was never written (a hole left by a write past the end)
Hole == [of |-> <<>>, block |-> 0]

\* JSON.stringify(artifact, null, 2), block by block
Stringify(artifact) == [b \in 1..Blocks |-> [of |-> artifact, block |-> b]]

\* JSON.parse(content): the artifact when the text is the whole text of one
\* artifact, a SyntaxError otherwise
Parse(content) ==
    IF /\ Len(content) = Blocks
       /\ \A b \in 1..Blocks : content[b] = Stringify(content[1].of)[b]
    THEN [ok |-> TRUE, body |-> content[1].of]
    ELSE [ok |-> FALSE,
          error |-> [name |-> "SyntaxError", message |-> "Unexpected end of JSON input",
                     httpStatusCode |-> NoStatus]]

\* ENOENT of renameSync
NoEntry == [name |-> "Error", message |-> "ENOENT: no such file or directory, rename",
            httpStatusCode |-> NoStatus]

NoCall == [pc |-> "idle", saves |-> 0]

\* an inode number in use by no entry and no open descriptor
FreshInode ==
    LET used == {f.inode : f \in files}
                   \cup {call[w].fd : w \in {x \in DOMAIN call : call[x].pc = "write"}}
    IN  CHOOSE n \in 1..(Cardinality(used) + 1) : n \notin used

\* pwrite of one block at position b: a write past the end leaves holes
WriteBlock(content, b, block) ==
    [i \in 1..(IF Len(content) > b THEN Len(content) ELSE b) |->
        IF i = b THEN block ELSE IF i <= Len(content) THEN content[i] ELSE Hole]

\* saveSnapshot / saveIndex, first system call: writeFileSync opens tempPath
\* with flag 'w', which truncates the file when it exists and creates it otherwise
LocalSaveOpen(w) ==
    /\ call[w].pc = "idle"
    /\ call[w].saves < MaxSaves
    /\ \E filePath \in LocalPaths :
          LET existing == {f \in files : f.path = TempPath(filePath)}
              inode == IF existing = {} THEN FreshInode
                       ELSE (CHOOSE f \in existing : TRUE).inode
          IN  /\ files' = (files \ existing)
                             \cup {[path |-> TempPath(filePath), inode |-> inode,
                                    content |-> <<>>]}
              /\ call' = [call EXCEPT ![w] =
                            [ pc |-> "write", saves |-> @.saves + 1, path |-> filePath,
                              fd |-> inode, written |-> 0,
                              artifact |-> [writer |-> w, save |-> @.saves + 1] ]]
    /\ UNCHANGED <<ledger, tally, now, jobs, store, indexes, metrics, proc, settled, credit, feed, reply>>

\* writeFileSync, one write of its loop: the next block goes to the open
\* inode, wherever its directory entry is by now; after the last one the
\* descriptor is closed
LocalSaveWrite(w) ==
    /\ call[w].pc = "write"
    /\ LET b == call[w].written + 1
       IN  /\ files' = { IF f.inode = call[w].fd
                         THEN [f EXCEPT !.content =
                                  WriteBlock(@, b, Stringify(call[w].artifact)[b])]
                         ELSE f : f \in files }
           /\ call' = [call EXCEPT ![w].written = b,
                                   ![w].pc = IF b = Blocks THEN "rename" ELSE "write"]
    /\ UNCHANGED <<ledger, tally, now, jobs, store, indexes, metrics, proc, settled, credit, feed, reply>>

\* renameSync(tempPath, filePath): the entry of tempPath replaces the entry of
\* filePath; ENOENT, which the save lets through, when tempPath has no entry
LocalSaveRename(w) ==
    /\ call[w].pc = "rename"
    /\ LET filePath == call[w].path
           temp == {f \in files : f.path = TempPath(filePath)}
       IN  IF temp = {}
           THEN /\ reply' = Threw("save", filePath, NoEntry)
                /\ UNCHANGED files
           ELSE /\ files' = {f \in files : f.path \notin {filePath, TempPath(filePath)}}
                               \cup {[f EXCEPT !.path = filePath] : f \in temp}
                /\ reply' = Returned("save", filePath, Null)
    /\ call' = [call EXCEPT ![w] = [pc |-> "idle", saves |-> @.saves]]
    /\ UNCHANGED <<ledger, tally, now, jobs, store, indexes, metrics, proc, settled, credit, feed>>

\* getSnapshot / getIndex of a reader process: null when the file does not
\* exist, else JSON.parse of what readFileSync returns
LocalGet ==
    /\ \E filePath \in LocalPaths :
          LET found == {f \in files : f.path = filePath}
              parsed == Parse((CHOOSE f \in found : TRUE).content)
          IN  reply' = IF found = {} THEN Returned("get", filePath, Null)
                       ELSE IF parsed.ok THEN Returned("get", filePath, parsed.body)
                       ELSE Threw("get", filePath, parsed.error)
    /\ UNCHANGED <<ledger, tally, now, jobs, store, indexes, metrics, proc, settled, credit, feed, files, call>>

\* readdirSync(dirPath): the names of the files and directories directly in it
ReadDir(dirPath) ==
    { LET rest == SubSeq(f.path, Len(dirPath) + 2, Len(f.path))
          cut == CHOOSE i \in 1..(Len(rest) + 1) :
                    /\ i = Len(rest) + 1 \/ SubSeq(rest, i, i) = "/"
                    /\ \A j \in 1..(i - 1) : SubSeq(rest, j, j) # "/"
      IN  SubSeq(rest, 1, cut - 1) :
      f \in {x \in files : StartsWith(x.path, dirPath \o "/")} }

\* LocalStorage.listSnapshots: the names ending in .json, without it
LocalListSnapshots ==
    /\ reply' = Returned("localListSnapshots", IndexLeague \o "/" \o IndexSeason,
                         { SubSeq(name, 1, Len(name) - 5) :
                             name \in {n \in ReadDir(IndexLeague \o "/" \o IndexSeason) :
                                          EndsWith(n, ".json")} })
    /\ UNCHANGED <<ledger, tally, now, jobs, store, indexes, metrics, proc, settled, credit, feed, files, call>>

InitLocal ==
    /\ now = Instants[1]
    /\ jobs = {}
    /\ store = {}
    /\ indexes = {}
    /\ metrics = {}
    /\ proc = [p \in {1} |-> Idle]
    /\ settled = FALSE
    /\ credit = 0
    /\ feed = 1
    /\ reply = NoReply
    /\ files = {}
    /\ call = [w \in LocalProcs |-> NoCall]
    /\ tally = <<>>
    /\ ledger = <<>>

NextLocal ==
    \/ \E w \in LocalProcs : LocalSaveOpen(w)
    \/ \E w \in LocalProcs : LocalSaveWrite(w)
    \/ \E w \in LocalProcs : LocalSaveRename(w)
    \/ LocalGet
    \/ LocalListSnapshots

SpecLocal == InitLocal /\ [][NextLocal]_vars

(***************************************************************************)
(* IndexBuilder over R2Storage: updateMatchIndex loads the match index      *)
(* through getIndex, whose HeadObject and GetObject may be lost to the      *)
(* network                                                                  *)
(***************************************************************************)
\* indexExists: one HeadObject without withRetry; NotFound, a deserialization
\* error and "any other error" are all answered with false
IndexExists(objects, leagueId, season, indexType, lost) ==
    LET response == IF lost THEN [ok |-> FALSE, error |-> NetworkError]
                    ELSE HeadObject(objects, IndexKey(leagueId, season, indexType))
    IN  response.ok

\* getIndex: null (no object found) when indexExists is false, else GetObject
\* under withRetry with `fails` attempts lost; NoSuchKey or 404 is null too
GetIndexOverR2(objects, leagueId, season, indexType, lost, fails) ==
    LET key == IndexKey(leagueId, season, indexType)
        response == WithRetry(Attempts(fails, GetObject(objects, key)),
                              "getIndex(" \o key \o ")")
    IN  IF ~IndexExists(objects, leagueId, season, indexType, lost)
        THEN [ok |-> TRUE, found |-> {}]
        ELSE IF response.ok
        THEN [ok |-> TRUE, found |-> GetIndex(objects, leagueId, season, indexType)]
        ELSE IF response.error.name = "NoSuchKey" \/ response.error.httpStatusCode = 404
        THEN [ok |-> TRUE, found |-> {}]
        ELSE [ok |-> FALSE, error |-> response.error]

\* indexBuilder.updateMatchIndex(leagueId, season, batch) on an R2Storage: the
\* index is built on what getIndex returned and saved over the stored one
CallUpdateMatchIndexOverR2 ==
    /\ \E batch \in Batches, lost \in BOOLEAN, fails \in LostAttempts :
       \E loaded \in {GetIndexOverR2(indexes, IndexLeague, IndexSeason, "by_match", lost, fails)} :
          IF loaded.ok
          THEN /\ indexes' = UpdateMatchIndex(
                                IF loaded.found = {}
                                THEN {o \in indexes :
                                        o.key # IndexKey(IndexLeague, IndexSeason, "by_match")}
                                ELSE indexes,
                                IndexLeague, IndexSeason, batch, now)
               /\ reply' = Returned("updateMatchIndex", <<lost, fails>>, Null)
          ELSE /\ indexes' = indexes
               /\ reply' = Threw("updateMatchIndex", <<lost, fails>>, loaded.error)
    /\ UNCHANGED <<ledger, tally, files, call, now, jobs, store, metrics, proc, settled, credit, feed>>

NextLoad ==
    \/ CallUpdateMatchIndexOverR2
    \/ ClearIndexes
    \/ Tick

SpecLoad == InitIndex /\ [][NextLoad]_vars

(***************************************************************************)
(* R2Storage.withRetry, attempt by attempt: the operation of each attempt   *)
(* returns or throws, and the loop sleeps between two attempts.  `made` and *)
(* `waited` record the attempts made and the delays slept, in order.        *)
(***************************************************************************)
MaxConfigured == 6      \* largest config.maxRetries tried

\* this.maxRetries = config.maxRetries || 3 (0 stands for an option left out)
ConfiguredRetries(maxRetries) == IF maxRetries = 0 THEN MaxRetries ELSE maxRetries

\* a delay that is not capped
BackoffUncapped(attempt) == 1000 * 2 ^ (attempt - 1)

\* Math.min(1000 * Math.pow(2, attempt - 1), 10000)
Backoff(attempt) ==
    IF 1000 * 2 ^ (attempt - 1) < 10000 THEN 1000 * 2 ^ (attempt - 1) ELSE 10000

NoRetry ==
    [ pc |-> "idle", configured |-> 0, maxRetries |-> 0, attempt |-> 0, made |-> 0,
      waited |-> <<>>, lastError |-> Null ]

\* withRetry(operation, operationName) is entered: let lastError; attempt = 1
WithRetryBegin(w) ==
    /\ call[w].pc = "idle"
    /\ \E maxRetries \in 0..MaxConfigured :
          call' = [call EXCEPT ![w] = [NoRetry EXCEPT !.pc = "attempt", !.attempt = 1,
                                          !.configured = maxRetries,
                                          !.maxRetries = ConfiguredRetries(maxRetries)]]
    /\ UNCHANGED <<ledger, tally, files, now, jobs, store, indexes, metrics, proc, settled, credit, feed, reply>>

\* one pass of the for loop: return await operation(), or the catch block,
\* which ends in a sleep or, after attempt++ and the failed loop test, the throw
WithRetryAttempt(w) ==
    /\ call[w].pc = "attempt"
    /\ call[w].attempt <= call[w].maxRetries
    /\ \/ /\ call' = [call EXCEPT ![w].pc = "idle", ![w].made = @ + 1]
          /\ reply' = Returned("withRetry", <<call[w].maxRetries, call[w].made + 1>>, "result")
       \/ /\ call[w].attempt < call[w].maxRetries
          /\ call' = [call EXCEPT ![w].pc = "sleep", ![w].made = @ + 1,
                                  ![w].lastError = NetworkError.message]
          /\ UNCHANGED reply
       \/ /\ call[w].attempt >= call[w].maxRetries
          /\ call' = [call EXCEPT ![w].pc = "idle", ![w].made = @ + 1,
                                  ![w].lastError = NetworkError.message]
          /\ reply' = Threw("withRetry", <<call[w].maxRetries, call[w].made + 1>>,
                            [name |-> "Error",
                             message |-> "R2Storage: op failed after "
                                            \o ToString(call[w].maxRetries) \o " attempts: "
                                            \o NetworkError.message,
                             httpStatusCode |-> NoStatus])
    /\ UNCHANGED <<ledger, tally, files, now, jobs, store, indexes, metrics, proc, settled, credit, feed>>

\* await new Promise(resolve => setTimeout(resolve, delay)) resolves; attempt++
WithRetryWake(w) ==
    /\ call[w].pc = "sleep"
    /\ call' = [call EXCEPT ![w].pc = "attempt", ![w].attempt = @ + 1,
                            ![w].waited = Append(@, Backoff(call[w].attempt))]
    /\ UNCHANGED <<ledger, tally, files, now, jobs, store, indexes, metrics, proc, settled, credit, feed, reply>>

InitRetry ==
    /\ now = Instants[1]
    /\ jobs = {}
    /\ store = {}
    /\ indexes = {}
    /\ metrics = {}
    /\ proc = [p \in {1} |-> Idle]
    /\ settled = FALSE
    /\ credit = 0
    /\ feed = 1
    /\ reply = NoReply
    /\ files = {}
    /\ call = [w \in {1} |-> NoRetry]
    /\ tally = <<>>
    /\ ledger = <<>>

NextRetry ==
    \/ \E w \in DOMAIN call : WithRetryBegin(w)
    \/ \E w \in DOMAIN call : WithRetryAttempt(w)
    \/ \E w \in DOMAIN call : WithRetryWake(w)

\* the event loop runs every continuation that is ready: an attempt that was
\* started settles and a timer that was set fires
SpecRetry ==
    /\ InitRetry /\ [][NextRetry]_vars
    /\ \A w \in {1} : WF_vars(WithRetryAttempt(w)) /\ WF_vars(WithRetryWake(w))

(***************************************************************************)
(* Properties                                                              *)
(***************************************************************************)
DiscoveryPcs == {"fetchEvents", "getJob", "scheduleJob"}
JobLoopPcs == {"markRunning", "fetchOdds", "saveSnapshot", "markCompleted"}

\* invocation p takes a step of run()
Moved(p) ==
    <<proc'[p].pc, proc'[p].li, proc'[p].ei, proc'[p].ti, proc'[p].bi>>
        # <<proc[p].pc, proc[p].li, proc[p].ei, proc[p].ti, proc[p].bi>>

\* the (fixture, offset) pairs of the configured leagues with their scheduled instants
Pairs ==
    { [eventId |-> FetchEvents(Leagues[l].providerKey)[e].id,
       timingOffset |-> Timings[t].name,
       scheduledTime |-> CalculateScheduledTime(
                             FetchEvents(Leagues[l].providerKey)[e].commenceTime,
                             Timings[t].hoursBeforeKickoff)] :
        <<l, e, t>> \in { x \in (1..Len(Leagues)) \X (1..2) \X (1..Len(Timings)) :
                            x[2] <= Len(FetchEvents(Leagues[x[1]].providerKey)) } }

\* C1: a discovery pass that starts after a pass over the same fixture list and
\* timing offsets has ended without error, no row having been deleted since,
\* adds no Job row: each of its steps leaves the table as it was.
C1_RediscoveryAddsNoRow ==
    [][\A p \in DOMAIN proc :
          (proc[p].basis /\ proc[p].pc \in DiscoveryPcs /\ Moved(p)) => jobs' = jobs]_vars

\* a second pass has run to its end over a table holding the rows of the first
C1_Witness ==
    \E p \in DOMAIN proc :
        /\ proc[p].basis /\ proc[p].pc = "select" /\ proc[p].derr = {}
        /\ \A pr \in Pairs : pr.scheduledTime >= 0 =>
              \E r \in jobs : r.eventId = pr.eventId /\ r.timingOffset = pr.timingOffset

\* C2: at most one Job row exists for each (fixtureId, offsetName) pair, in
\* every reachable state of the queue.
C2_OneRowPerPair ==
    \A r1, r2 \in jobs :
        (r1.eventId = r2.eventId /\ r1.timingOffset = r2.timingOffset) => r1 = r2

\* an invocation is about to INSERT a pair whose row the other has already inserted
C2_Witness ==
    \E p \in DOMAIN proc :
        /\ proc[p].pc = "scheduleJob"
        /\ \E r \in jobs : r.eventId = Event(p).id /\ r.timingOffset = Timing(p).name

\* C3 as stated: no job goes from pending directly to completed or to failed.
C3_NeverFromPending ==
    [][\A r \in jobs, r2 \in jobs' :
          (r.id = r2.id /\ r.status = "pending") => r2.status \notin {"completed", "failed"}]_vars

\* C3 amended: a row is written completed or failed only by an invocation that
\* is executing that job; completed only by the one that has marked it running
\* and saved its snapshot in this attempt; failed from an attempt whose
\* mark-running update succeeded, or directly (from pending) by the catch block
\* of an attempt whose mark-running update itself threw.
C3_TerminalOnlyFromAnAttempt ==
    [][\A r \in jobs, r2 \in jobs' :
          (r.id = r2.id /\ r2 # r /\ r2.status \in {"completed", "failed"}) =>
             \E p \in DOMAIN proc :
                /\ proc[p].pc \in JobLoopPcs /\ Moved(p) /\ Job(p).id = r.id
                /\ r2.status = "completed" => proc[p].pc = "markCompleted"
                /\ (r2.status = "failed" /\ proc[p].pc = "markRunning") =>
                      (credit' < credit /\ r2.error = QueueError)]_vars

\* a job whose only status update ever is the one that marked it failed
C3_Witness ==
    \E r \in jobs : r.status = "failed" /\ r.attempts = 1 /\ r.error = QueueError

\* the exception each step of the job loop can throw
ThrownBy(pc) ==
    CASE pc = "markRunning" -> {QueueError}
      [] pc = "fetchOdds" -> ProviderErrors
      [] pc = "saveSnapshot" -> {StorageError}
      [] pc = "markCompleted" -> {QueueError}

\* C4 as stated: when a step of processing a due job throws, the job ends failed
\* with the exception's message in its error field, and the loop goes on to the
\* next job of the batch (or to the metrics flush after the last one).
C4_ThrowMarksFailedAndContinues ==
    [][\A p \in DOMAIN proc :
          (proc[p].pc \in JobLoopPcs /\ Moved(p) /\ credit' < credit /\ proc'[p].pc # "idle") =>
             /\ \E r \in jobs' : /\ r.id = Job(p).id
                                 /\ r.status = "failed"
                                 /\ r.error \in ThrownBy(proc[p].pc)
             /\ proc'[p].pc \in {"markRunning", "recordMetrics"}]_vars

\* status updates of the current step that threw
QueueUpdatesFailed(p) ==
    IF proc[p].pc \in {"markRunning", "markCompleted"}
    THEN credit - credit'
    ELSE credit - credit' - 1

\* C5 as stated: a step of the job loop in which a single status update fails
\* does not end the batch: the loop goes on to the next job or to the flush.
C5_FailedUpdateIsCaught ==
    [][\A p \in DOMAIN proc :
          (proc[p].pc \in JobLoopPcs /\ Moved(p) /\ proc'[p].pc # "idle"
             /\ QueueUpdatesFailed(p) = 1) =>
                proc'[p].pc \in {"markRunning", "recordMetrics"}]_vars

\* C6 as stated: every job of the batch the due-job query returns is scheduled
\* within [now, now + slack].
C6_BatchWithinInterval ==
    [][\A p \in DOMAIN proc :
          (proc[p].pc = "select" /\ proc'[p].pc = "markRunning") =>
             \A i \in 1..Len(proc'[p].dueJobs) :
                /\ now <= proc'[p].dueJobs[i].scheduledTime
                /\ proc'[p].dueJobs[i].scheduledTime <= now + SlackMinutes]_vars

\* C6 amended: every job of the batch is a row that is pending and scheduled at
\* or before now + slack at the time of the query, overdue rows included, and a
\* step of the job loop writes no row but that of the batch's current job.
C6_BatchPendingAndNotAfterWindow ==
    [][\A p \in DOMAIN proc :
          /\ (proc[p].pc = "select" /\ proc'[p].pc = "markRunning") =>
                \A i \in 1..Len(proc'[p].dueJobs) :
                   /\ proc'[p].dueJobs[i] \in jobs
                   /\ proc'[p].dueJobs[i].status = "pending"
                   /\ proc'[p].dueJobs[i].scheduledTime <= now + SlackMinutes
          /\ (proc[p].pc \in JobLoopPcs /\ Moved(p)) =>
                \A r \in jobs : r.id # Job(p).id => r \in jobs']_vars

\* a batch holds a job whose scheduled instant was already past when the run began
C6_Witness ==
    \E p \in DOMAIN proc :
        /\ proc[p].pc = "markRunning"
        /\ \E i \in 1..Len(proc[p].dueJobs) : proc[p].dueJobs[i].scheduledTime < proc[p].dnow

Range(s) == {s[i] : i \in 1..Len(s)}

\* C7: every result of getJobsDueWithin(window, limit) holds only pending rows
\* scheduled at or before now + window, in ascending scheduledTime order, at
\* most `limit` of them, and every qualifying row left out is scheduled no
\* earlier than every row returned.
C7_DueJobsOrderedAndTruncated ==
    \A b \in GetJobsDueWithin(jobs, SlackMinutes, MaxJobsPerRun, now) :
        /\ Len(b) <= MaxJobsPerRun
        /\ \A i \in 1..Len(b) : /\ b[i] \in jobs
                                /\ b[i].status = "pending"
                                /\ b[i].scheduledTime <= now + SlackMinutes
        /\ \A i, j \in 1..Len(b) : i < j => (b[i] # b[j] /\ b[i].scheduledTime <= b[j].scheduledTime)
        /\ \A r \in jobs :
              (r.status = "pending" /\ r.scheduledTime <= now + SlackMinutes /\ r \notin Range(b)) =>
                 /\ Len(b) = MaxJobsPerRun
                 /\ \A i \in 1..Len(b) : b[i].scheduledTime <= r.scheduledTime

\* a run holds a full batch while a later-scheduled qualifying row was left out
C7_Witness ==
    \E p \in DOMAIN proc :
        /\ proc[p].pc = "markRunning" /\ proc[p].bi = 1
        /\ Range(proc[p].dueJobs) \subseteq jobs
        /\ \E r \in jobs : /\ r.status = "pending"
                           /\ r.scheduledTime <= now + SlackMinutes
                           /\ r \notin Range(proc[p].dueJobs)
                           /\ \E q \in Range(proc[p].dueJobs) : q.scheduledTime < r.scheduledTime

\* C8 as stated: when two overlapping invocations have both ended discovery,
\* every (fixture, offset) whose scheduled instant is not before either pass's
\* `now` has exactly one row, and no league's discovery of either invocation
\* has failed (nothing else fails here, so only the other invocation can be the cause).
C8_ConcurrentDiscoverySafe ==
    /\ \A p \in DOMAIN proc : proc[p].pc = "select" => proc[p].derr = {}
    /\ (\A p \in DOMAIN proc : proc[p].pc = "select") =>
          \A pr \in Pairs :
             (\A p \in DOMAIN proc : pr.scheduledTime >= proc[p].dnow) =>
                Cardinality({r \in jobs : /\ r.eventId = pr.eventId
                                          /\ r.timingOffset = pr.timingOffset}) = 1

\* C9: the due-job query writes nothing: the rows it returns are still pending
\* after it and stay selectable until a later, separate update marks them
\* running (so two overlapping invocations can both be handed the same job).
C9_QueryLeavesJobsPending ==
    [][\A p \in DOMAIN proc :
          (proc[p].pc = "select" /\ Moved(p)) =>
             /\ jobs' = jobs
             /\ \A i \in 1..Len(proc'[p].dueJobs) :
                   proc'[p].dueJobs[i] \in DueRows(jobs', SlackMinutes, now)]_vars

\* both invocations have marked the same job running and fetched its odds
C9_Witness ==
    /\ DOMAIN proc = {1, 2}
    /\ proc[1].pc \in {"saveSnapshot", "markCompleted"}
    /\ proc[2].pc \in {"saveSnapshot", "markCompleted"}
    /\ Job(1).id = Job(2).id
    /\ \E r \in jobs : r.id = Job(1).id /\ r.attempts >= 2

\* the job is in the part of some invocation's batch that is still to be done
InFlight(jobId) ==
    \E p \in DOMAIN proc :
        /\ proc[p].pc \in JobLoopPcs
        /\ \E i \in proc[p].bi..Len(proc[p].dueJobs) : proc[p].dueJobs[i].id = jobId

\* C10: a row left running with no invocation executing it is never returned by
\* the due-job query and is changed by no step except a retryJob call, which
\* makes it pending.
C10_StuckRunningUntilRetry ==
    [][\A r \in jobs :
          (r.status = "running" /\ ~InFlight(r.id)) =>
             /\ \E r2 \in jobs' :
                   /\ r2.id = r.id
                   /\ r2 = r \/ (r2.status = "pending" /\ proc' = proc /\ credit' < credit)
             /\ \A p \in DOMAIN proc :
                   (proc[p].pc = "select" /\ Moved(p)) =>
                      \A i \in 1..Len(proc'[p].dueJobs) : proc'[p].dueJobs[i].id # r.id]_vars

\* a later run's due-job query has come back empty while a row due by its
\* scheduled time sits in running
C10_Witness ==
    \E r \in jobs :
        /\ r.status = "running"
        /\ r.scheduledTime <= now + SlackMinutes
        /\ \A p \in DOMAIN proc : proc[p].pc = "summary"

\* C11: a failed row is in no invocation's batch, is never returned by the
\* due-job query, and is left as it is by every step except a retryJob call
\* (which makes it pending) and cleanupOldJobs (which deletes it once its
\* completion is older than the retention).
C11_FailedStaysFailed ==
    [][\A r \in jobs :
          r.status = "failed" =>
             /\ ~InFlight(r.id)
             /\ \A p \in DOMAIN proc :
                   (proc[p].pc = "select" /\ Moved(p)) =>
                      \A i \in 1..Len(proc'[p].dueJobs) : proc'[p].dueJobs[i].id # r.id
             /\ \/ r \in jobs'
                \/ /\ \E r2 \in jobs' : r2.id = r.id /\ r2.status = "pending"
                   /\ proc' = proc /\ credit' < credit
                \/ /\ \A r2 \in jobs' : r2.id # r.id
                   /\ \E d \in DaysOldInputs : r \in CleanupRows(jobs, d, now)
                   /\ credit' < credit]_vars

\* a run that began after the job failed has made its due-job query, the failed
\* row being due by its scheduled time, and holds a batch without it
C11_Witness ==
    \E r \in jobs :
        /\ r.status = "failed"
        /\ r.scheduledTime <= now + SlackMinutes
        /\ \E p \in DOMAIN proc :
              /\ proc[p].pc \in {"markRunning", "summary"}
              /\ proc[p].dnow > r.lastAttempt
              /\ \A i \in 1..Len(proc[p].dueJobs) : proc[p].dueJobs[i].id # r.id

\* C12 as stated: the snapshot location recorded on a completed job is the
\* storage key leagues/{leagueId}/{season}/{fixtureId}_{offsetName}_{matchDate}.json
\* under which the store holds the snapshot of that job.
C12_RecordedLocationIsStorageKey ==
    \A r \in jobs :
        r.status = "completed" =>
           /\ r.snapshotPath = SnapshotKey(r.leagueId, InferSeasonFromDate(r.matchDate),
                                           GetSnapshotId(r.eventId, r.timingOffset, r.matchDate))
           /\ \E o \in store : o.key = r.snapshotPath

\* the (fixtureId, offsetName, matchDate) a stored snapshot is of
Triple(o) == <<o.body.eventId, o.body.snapshotTiming, o.body.date>>

\* C13: after a job's snapshot is saved the store holds exactly one artifact of
\* the job's (fixtureId, offsetName, matchDate), carrying this write's
\* timestamp, whether or not an artifact of the triple was there before; the
\* artifacts of other triples are untouched.
C13_OneArtifactPerTriple ==
    [][\A p \in DOMAIN proc :
          (proc[p].pc = "saveSnapshot" /\ proc'[p].pc = "markCompleted") =>
             LET tr == <<Job(p).eventId, Job(p).timingOffset, Job(p).matchDate>>
             IN  /\ \E o \in store' :
                       /\ Triple(o) = tr
                       /\ o.body.timestamp = now
                       /\ \A o2 \in store' : Triple(o2) = tr => o2 = o
                 /\ \A o2 \in store : Triple(o2) # tr => o2 \in store']_vars

\* a job completed at an earlier time has just been executed again: the one
\* artifact of its triple carries the later timestamp
C13_Witness ==
    \E p \in DOMAIN proc :
        /\ proc[p].pc = "markCompleted"
        /\ \E r \in jobs : /\ r.id = Job(p).id
                           /\ r.snapshotPath # Null
                           /\ r.completedAt # NoTime /\ r.completedAt < now
        /\ \E o \in store :
              /\ Triple(o) = <<Job(p).eventId, Job(p).timingOffset, Job(p).matchDate>>
              /\ o.body.timestamp = now

\* the fixtures all of whose configured timing offsets have a completed job
FullyCollected ==
    { r \in jobs : \A i \in 1..Len(Timings) :
          \E r2 \in jobs : /\ r2.eventId = r.eventId
                           /\ r2.timingOffset = Timings[i].name
                           /\ r2.status = "completed" }

\* C14 as stated: when the worker's index build runs after every offset of a
\* fixture has been executed, the store then holds a match index with exactly
\* one entry for the fixture, carrying a location for each offset, and a team
\* index listing that entry's match key under the home and the away team.
C14_PipelineBuildsIndexes ==
    [][\A p \in DOMAIN proc :
          (proc[p].pc = "buildIndexes" /\ proc'[p].pc = "idle" /\ credit' = credit) =>
             \A r \in FullyCollected :
                LET matchKey == GenerateMatchKey(r.homeTeam, r.awayTeam, r.matchDate)
                IN  /\ \E o \in indexes' :
                          /\ "matches" \in DOMAIN o.body
                          /\ o.body.leagueId = r.leagueId
                          /\ Cardinality({i \in 1..Len(o.body.matches) :
                                            o.body.matches[i].eventId = r.eventId}) = 1
                          /\ \A i \in 1..Len(o.body.matches) :
                                o.body.matches[i].eventId = r.eventId =>
                                   /\ o.body.matches[i].matchKey = matchKey
                                   /\ {sn.timing : sn \in o.body.matches[i].snapshots}
                                         = {Timings[k].name : k \in 1..Len(Timings)}
                    /\ \E o \in indexes' :
                          /\ "teams" \in DOMAIN o.body
                          /\ o.body.leagueId = r.leagueId
                          /\ \A tm \in {FormatTeamNameForPath(r.homeTeam),
                                        FormatTeamNameForPath(r.awayTeam)} :
                                /\ tm \in DOMAIN o.body.teams
                                /\ \E k \in 1..Len(o.body.teams[tm].matches) :
                                      o.body.teams[tm].matches[k] = matchKey]_vars

\* C15: a row enters the queue only by a discovery pass's scheduleJob step, with
\* scheduled instant = kickoff - hoursBeforeKickoff of its offset, and that
\* instant is not before the `now` the pass read at its start; a pair whose
\* scheduled instant is before that `now` is skipped without touching the queue.
C15_NoRetroactiveScheduling ==
    [][/\ \A r \in {x \in jobs' : \A q \in jobs : q.id # x.id} :
             /\ r.scheduledTime
                   = r.kickoffTime - TimingNamed(r.timingOffset).hoursBeforeKickoff * 60
             /\ \E p \in DOMAIN proc :
                   /\ proc[p].pc = "scheduleJob" /\ Moved(p)
                   /\ r.eventId = Event(p).id /\ r.timingOffset = Timing(p).name
                   /\ r.scheduledTime >= proc[p].dnow
       /\ \A p \in DOMAIN proc :
             (/\ proc[p].pc = "getJob" /\ Moved(p)
              /\ Event(p).commenceTime - Timing(p).hoursBeforeKickoff * 60 < proc[p].dnow) =>
                 (jobs' = jobs /\ proc'[p].pc # "scheduleJob")]_vars

\* a pass has just skipped a pair whose scheduled instant is before its `now`,
\* after inserting a row for another pair; the skipped pair has no row
C15_Witness ==
    \E p \in DOMAIN proc :
        /\ proc[p].pc = "getJob" /\ proc[p].ti > 1
        /\ Event(p).commenceTime - Timings[proc[p].ti - 1].hoursBeforeKickoff * 60 < proc[p].dnow
        /\ \A r \in jobs : ~(r.eventId = Event(p).id
                               /\ r.timingOffset = Timings[proc[p].ti - 1].name)
        /\ \E r \in jobs : r.createdAt >= proc[p].dnow

\* C16: at the end of a discovery pass during which no row was deleted, every
\* league whose discovery did not fail has a row for each of its (fixture,
\* offset) pairs scheduled at or after the pass's `now`, whatever happened to
\* the other leagues.
C16_OtherLeaguesStillDiscovered ==
    \A p \in DOMAIN proc :
        (proc[p].pc = "select" /\ ~proc[p].dirty) =>
           \A l \in 1..Len(Leagues) :
              (\A x \in proc[p].derr : x.league # Leagues[l].id) =>
                 \A e \in 1..Len(FetchEvents(Leagues[l].providerKey)), t \in 1..Len(Timings) :
                    LET event == FetchEvents(Leagues[l].providerKey)[e]
                    IN  CalculateScheduledTime(event.commenceTime, Timings[t].hoursBeforeKickoff)
                            >= proc[p].dnow =>
                           \E r \in jobs : /\ r.eventId = event.id
                                           /\ r.timingOffset = Timings[t].name

\* a pass has ended in which the first league's discovery failed and the second
\* league's fixtures were scheduled
C16_Witness ==
    \E p \in DOMAIN proc :
        /\ proc[p].pc = "select" /\ ~proc[p].dirty
        /\ {x.league : x \in proc[p].derr} = {Leagues[1].id}
        /\ \A r \in jobs : r.leagueId # Leagues[1].id
        /\ \E r \in jobs : r.leagueId = Leagues[2].id /\ r.createdAt >= proc[p].dnow

\* C17 as stated: when an invocation issues a provider call that is not its
\* first of the phase (the fixture fetch of a second or later league, the odds
\* fetch of a second or later job), it has awaited the delay since its previous
\* provider call, whether that call succeeded or failed.
C17_DelayBeforeNextProviderCall ==
    [][\A p \in DOMAIN proc :
          (/\ Moved(p) /\ proc'[p].pc # "idle"
           /\ \/ proc[p].pc = "fetchEvents" /\ proc[p].li > 1
              \/ proc[p].pc = "fetchOdds" /\ proc[p].bi > 1) =>
             proc[p].rested]_vars

\* positions of the batch whose job the invocation has not started on
Unattempted(p) ==
    { i \in 1..Len(proc[p].dueJobs) :
        i > proc[p].bi \/ (i = proc[p].bi /\ proc[p].pc = "markRunning") }

\* C18: when an invocation ends in the middle of its batch (the worker dies, or
\* an exception escapes), the queue is left exactly as it was: completed rows
\* stay completed, failed rows stay failed, and every job of the batch not yet
\* started on is still pending and, unless it was rescheduled meanwhile, is
\* returned by the due-job query from then on.
C18_InterruptionKeepsQueue ==
    [][\A p \in DOMAIN proc :
          (proc[p].pc \in JobLoopPcs /\ Moved(p) /\ proc'[p].pc \in {"idle", "rejected"}) =>
             /\ jobs' = jobs
             /\ \A i \in Unattempted(p) :
                   \E r \in jobs' :
                      /\ r.id = proc[p].dueJobs[i].id
                      /\ r.status = "pending"
                      /\ r.scheduledTime = proc[p].dueJobs[i].scheduledTime =>
                            r \in DueRows(jobs', SlackMinutes, now')]_vars

\* the only disturbance so far was the death of a worker in the middle of a
\* batch: the job it was on is left running, the job it completed just before
\* is completed, and a due job it had not come to is pending, never attempted
C18_Witness ==
    /\ credit = MaxDisturbances - 1
    /\ \A p \in DOMAIN proc : proc[p].pc = "idle"
    /\ \E r1, r2, r3 \in jobs :
          /\ r1.status = "completed" /\ r2.status = "running"
          /\ r1.completedAt = r2.lastAttempt
          /\ r3.status = "pending" /\ r3.attempts = 0
          /\ r3 \in DueRows(jobs, SlackMinutes, now)

\* C19 as stated: a scheduleJob call with an id that already has a row leaves
\* the table unchanged and raises no error (the caller records no failure).
C19_ScheduleJobInsertOrNoop ==
    [][\A p \in DOMAIN proc :
          (/\ proc[p].pc = "scheduleJob" /\ Moved(p)
           /\ \E r \in jobs : r.id = GenerateJobId(Event(p).id, Timing(p).name)) =>
             (jobs' = jobs /\ proc'[p].derr = proc[p].derr)]_vars

Statuses == {"pending", "running", "completed", "failed"}

\* C20: no step lowers the attempts of a row; a step of the job loop that
\* writes the queue raises the attempts of its job by exactly one; and
\* updateJobStatus applied to any existing row with any target status yields
\* that row with attempts + 1 and every other row as it was.
C20_AttemptsStrictlyIncrease ==
    [][/\ \A r \in jobs, r2 \in jobs' : r.id = r2.id => r2.attempts >= r.attempts
       /\ \A p \in DOMAIN proc :
             (proc[p].pc \in JobLoopPcs /\ Moved(p) /\ jobs' # jobs) =>
                \E r \in jobs, r2 \in jobs' :
                   /\ r.id = Job(p).id /\ r2.id = r.id
                   /\ r2.attempts = r.attempts + 1
       /\ \A r \in jobs, st \in Statuses :
             \A r2 \in UpdateJobStatus(jobs, r.id, st, "", "", now) :
                IF r2.id = r.id THEN r2.attempts = r.attempts + 1 ELSE r2 \in jobs]_vars

\* a row on its third status update: executed once, reset by retryJob (which
\* kept its attempts), and marked running again
C20_Witness ==
    \E r \in jobs : r.status = "running" /\ r.attempts = 3

\* C21: a status update stamps completedAt only when the new status is
\* completed or failed (marking a row running leaves its completedAt as it
\* was), keeps the recorded snapshot location when none is supplied, and
\* stamps lastAttempt on every call.  Stated of every step of the job loop
\* that writes the queue, and of updateJobStatus applied to any row with any
\* target status, with and without a location.
C21_StatusUpdateFrame ==
    [][/\ \A p \in DOMAIN proc :
             (proc[p].pc \in JobLoopPcs /\ Moved(p) /\ jobs' # jobs) =>
                \E r \in jobs, r2 \in jobs' :
                   /\ r.id = Job(p).id /\ r2.id = r.id
                   /\ r2.lastAttempt = now
                   /\ r2.completedAt = IF r2.status \in {"completed", "failed"}
                                       THEN now ELSE r.completedAt
                   /\ r2.status # "completed" => r2.snapshotPath = r.snapshotPath
       /\ \A r \in jobs, st \in {"running", "completed", "failed"},
             sp \in {"", "EPL/2025-2026/snapshots/x.json"} :
             \E r2 \in UpdateJobStatus(jobs, r.id, st, sp, "", now) :
                /\ r2.id = r.id
                /\ r2.lastAttempt = now
                /\ r2.completedAt = IF st \in {"completed", "failed"} THEN now
                                                                     ELSE r.completedAt
                /\ r2.snapshotPath = IF sp = "" THEN r.snapshotPath ELSE sp]_vars

\* a row completed at one instant, reset by retryJob and marked running at a
\* later one: the update kept the earlier completedAt and the location
C21_Witness ==
    \E r \in jobs :
       /\ r.status = "running"
       /\ r.completedAt # NoTime /\ r.snapshotPath # Null
       /\ r.lastAttempt > r.completedAt

\* columns retryJob is said to leave alone
KeptByRetry ==
    {"id", "leagueId", "eventId", "homeTeam", "awayTeam", "matchDate", "kickoffTime",
     "timingOffset", "attempts", "snapshotPath", "completedAt"}

\* an operator's retryJob call: the queue is written outside any invocation of run()
RetryStep ==
    /\ proc' = proc /\ credit' # credit
    /\ {r.id : r \in jobs'} = {r.id : r \in jobs}

\* C22: retryJob(id, t) sets status pending, scheduledTime t and error null on
\* the row and leaves its attempts, snapshot location, completedAt and fixture
\* fields (and every other row) unchanged; the row is then matched by the
\* due-job query exactly when t is within the window.  Stated of every
\* retryJob step and of retryJob applied to any row of any reachable state.
C22_RetryJobFrame ==
    [][/\ RetryStep =>
             \E r \in jobs, r2 \in jobs' :
                /\ r2.id = r.id /\ jobs' \ {r2} = jobs \ {r}
                /\ r2.status = "pending" /\ r2.error = Null
                /\ \A f \in KeptByRetry : r2[f] = r[f]
                /\ (r2.scheduledTime <= now + SlackMinutes) =
                      (r2 \in DueRows(jobs', SlackMinutes, now))
       /\ \A r \in jobs, t \in {now, now + 60} :
             LET after == RetryJobRows(jobs, r.id, t)
             IN  \E r2 \in after :
                    /\ r2.id = r.id /\ after \ {r2} = jobs \ {r}
                    /\ r2.status = "pending" /\ r2.error = Null /\ r2.scheduledTime = t
                    /\ \A f \in KeptByRetry : r2[f] = r[f]
                    /\ (t <= now + SlackMinutes) = (r2 \in DueRows(after, SlackMinutes, now))]_vars

\* a row that was executed, reset by retryJob and selected again by the
\* due-job query: the batch holds it pending, with its earlier attempts
C22_Witness ==
    \E p \in DOMAIN proc :
       /\ proc[p].pc = "markRunning"
       /\ Job(p).status = "pending" /\ Job(p).attempts >= 2 /\ Job(p).error = Null
       /\ Job(p).completedAt # NoTime

\* C23: discovery never modifies an existing row, whatever the provider now
\* reports for its fixture: every row is still in the table, field for field,
\* after a discovery step; a row changes only on a step of the job loop
\* working on that row.
C23_DiscoveryLeavesRowsAlone ==
    [][/\ \A p \in DOMAIN proc :
             (proc[p].pc \in DiscoveryPcs /\ Moved(p)) => \A r \in jobs : r \in jobs'
       /\ \A r \in jobs :
             r \notin jobs' =>
                \E p \in DOMAIN proc :
                   proc[p].pc \in JobLoopPcs /\ Moved(p) /\ Job(p).id = r.id]_vars

\* a pass that fetched the moved kickoff of e1 has gone past the opening job,
\* whose row still carries the kickoff and scheduled time first discovered
C23_Witness ==
    /\ feed = 2
    /\ \E p \in DOMAIN proc :
          /\ proc[p].pc = "getJob" /\ proc[p].li = 1 /\ proc[p].ti = 2
          /\ Event(p).id = "e1" /\ Event(p).commenceTime = 70
          /\ CalculateScheduledTime(Event(p).commenceTime, Timings[1].hoursBeforeKickoff)
                >= proc[p].dnow
    /\ \E r \in jobs : r.id = "e1_opening" /\ r.kickoffTime = 62 /\ r.scheduledTime = 2

\* rows of the table whose id has no row after the step
Deleted == {r \in jobs : \A r2 \in jobs' : r2.id # r.id}

\* C24: rows leave the table only through cleanupOldJobs(days), which deletes
\* exactly the completed or failed rows whose completedAt is older than the
\* threshold, never a pending or running row, and returns the number of rows
\* it deleted; no step of the pipeline deletes a row.
C24_OnlyCleanupDeletes ==
    [][/\ Deleted # {} =>
             /\ \A p \in DOMAIN proc : ~Moved(p)
             /\ jobs' = jobs \ Deleted
             /\ \E d \in DaysOldInputs :
                   /\ Deleted = {r \in jobs : /\ r.status \in {"completed", "failed"}
                                              /\ r.completedAt # NoTime
                                              /\ r.completedAt < now - d * 1440}
                   /\ reply' = Returned("cleanupOldJobs", d, Cardinality(Deleted))
       /\ \A d \in DaysOldInputs : \A r \in CleanupRows(jobs, d, now) :
             /\ r.status \notin {"pending", "running"}
             /\ r.completedAt # NoTime /\ r.completedAt < now - d * 1440]_vars

\* after a cleanup that deleted rows: the snapshot of a collected job is in
\* the store but its row is gone, while a pending or running row and a row
\* that reached its final status at the current instant are still there
C24_Witness ==
    /\ reply.op = "cleanupOldJobs" /\ reply.value >= 1
    /\ \E o \in store : \A r \in jobs :
          r.eventId # o.body.eventId \/ r.timingOffset # o.body.snapshotTiming
    /\ \E r \in jobs : r.status \in {"pending", "running"}
    /\ \E r \in jobs : r.status \in {"completed", "failed"} /\ r.completedAt = now

\* entries of the stored match index of the league and season, none when absent
MatchEntries(objects) ==
    LET found == GetIndex(objects, IndexLeague, IndexSeason, "by_match")
    IN  IF found = {} THEN <<>> ELSE (CHOOSE o \in found : TRUE).body.matches

\* match key produced by a descriptor
KeyOf(d) == GenerateMatchKey(d.homeTeam, d.awayTeam, d.matchDate)

TimingNames == {Timings[i].name : i \in 1..Len(Timings)}

\* C25: updateMatchIndex leaves every entry whose match key is not produced by
\* the batch exactly as it was and adds no entry under such a key; for a match
\* key of the batch, snapshots[offset] becomes the location of the last
\* descriptor of the batch with that key and offset, and the entry's other
\* offsets stay as they were.  Stated of every batch applied in every
\* reachable state of the index artifacts.
C25_UpdateMatchIndexFrame ==
    \A batch \in Batches :
    \A before \in {Range(MatchEntries(indexes))} :
    \A after \in {Range(MatchEntries(
                     UpdateMatchIndex(indexes, IndexLeague, IndexSeason, batch, now)))} :
    \A key \in {[i \in 1..Len(batch) |-> KeyOf(batch[i])]} :
    \A keys \in {Range(key)} :
           /\ \A e \in before : e.matchKey \notin keys => e \in after
           /\ \A e2 \in after : e2.matchKey \notin keys => e2 \in before
           /\ \A k \in keys :
                 /\ Cardinality({e2 \in after : e2.matchKey = k}) = 1
                 /\ \A e2 \in after : e2.matchKey = k =>
                       \A tm \in TimingNames :
                          LET hits == {i \in 1..Len(batch) :
                                          key[i] = k /\ batch[i].timing = tm}
                              last == CHOOSE i \in hits : \A j \in hits : j <= i
                              kept == UNION { {sn \in e.snapshots : sn.timing = tm} :
                                                 e \in {x \in before : x.matchKey = k} }
                          IN  {sn \in e2.snapshots : sn.timing = tm} =
                                 IF hits # {}
                                 THEN {[timing |-> tm, path |-> batch[last].path]}
                                 ELSE kept

\* the match index after several updates: two entries, one of them holding
\* the closing location recorded first and, for opening, the location that
\* replaced the one recorded first
C25_Witness ==
    /\ reply.op = "updateMatchIndex"
    /\ Len(MatchEntries(indexes)) >= 2
    /\ \E e \in Range(MatchEntries(indexes)) :
          /\ [timing |-> "closing", path |-> "EPL/2025-2026/e1_closing_2025-11-30.json"]
                \in e.snapshots
          /\ \E sn \in e.snapshots :
                sn.timing = "opening" /\ sn.path # "EPL/2025-2026/e1_opening_2025-11-30.json"

\* body of the stored index of the given type; read only where it is stored
IndexBody(objects, indexType) ==
    (CHOOSE o \in GetIndex(objects, IndexLeague, IndexSeason, indexType) : TRUE).body

RepeatedBuild == reply.op = "buildAllIndexes" /\ reply'.op = "buildAllIndexes"

C29_AbsentKeyIsNotAnError ==
    [][(/\ reply' # reply
        /\ reply'.op \in {"getSnapshot", "snapshotExists"}
        /\ reply'.args[2] < MaxRetries
        /\ \A o \in store \cup indexes : o.key # reply'.args[1]) =>
          /\ ~reply'.threw
          /\ reply'.value = IF reply'.op = "getSnapshot" THEN Null ELSE FALSE]_vars

\* the ids of the snapshots stored under a listing prefix
StoredSnapshotIds(objects, prefix) ==
    { SubSeq(FileName(o.key), 1, Len(FileName(o.key)) - 5) :
        o \in {x \in objects : StartsWith(x.key, prefix \o "/")} }

\* C30: a listSnapshots call that returns holds the id of every snapshot stored
\* under the league/season, however many pages the listing took; a call that
\* could not read one of its pages throws and returns no list.
C30_ListSnapshotsDrainsAllPages ==
    [][(reply' # reply /\ reply'.op = "listSnapshots") =>
          \/ reply'.threw
          \/ \A id \in StoredSnapshotIds(store, reply'.args) :
                \E i \in 1..Len(reply'.value) : reply'.value[i] = id]_vars

\* a listing of more than one page has returned, with two snapshots stored
C30_Witness ==
    /\ reply.op = "listSnapshots"
    /\ ~reply.threw
    /\ Len(reply.value) > MaxKeys
    /\ Cardinality(StoredSnapshotIds(store, reply.args)) = 2

\* C28 as stated: in every stored match index, the snapshot locations of one
\* fixture id are under a single match key (no two entries share an eventId),
\* whichever of the tools have called updateMatchIndex.
C28_OneEntryPerFixture ==
    \A o \in indexes :
       EndsWith(o.key, "/by_match.json") =>
          \A i, j \in 1..Len(o.body.matches) :
             o.body.matches[i].eventId = o.body.matches[j].eventId => i = j

\* C31 as stated: a getSnapshot or getIndex of a LocalStorage reader returns
\* null or a whole artifact and never fails on a partially written file,
\* whatever saves of the same path other processes are in the middle of.
C31_ReadersSeeWholeArtifacts ==
    [][(reply' # reply /\ reply'.op = "get") => ~reply'.threw]_vars

\* a run of the repair tool with --dry-run
DryRunStep ==
    /\ credit' = credit - 1
    /\ proc' = proc
    /\ reply'.op = "repair-production-data"
    /\ reply'.args[1]

\* C32: a dry run of the repair tool, whatever its other flags, leaves the job
\* rows, the snapshots and the index artifacts as they were.
C32_DryRunMutatesNothing ==
    [][DryRunStep => (jobs' = jobs /\ store' = store /\ indexes' = indexes)]_vars

\* a dry run with --fetch-missing and --clear-indexes has returned where a live
\* run would update a path, clear and rebuild indexes
C32_Witness ==
    /\ reply.op = "repair-production-data"
    /\ reply.args = <<TRUE, TRUE, TRUE>>
    /\ PathMismatches(jobs, ListAllR2Objects(store \cup indexes)) # {}
    /\ indexes # {}

\* C33 as stated: collection_metrics holds at most one row per (date, leagueId).
C33_OneMetricsRowPerDayAndLeague ==
    \A a, b \in metrics : (a.date = b.date /\ a.leagueId = b.leagueId) => a = b

\* the counter `field` of the metricsMap entry of a league (0 when it has none yet)
Counted(mm, leagueId) ==
    LET entries == {mm[i] : i \in {j \in 1..Len(mm) : mm[j].leagueId = leagueId}}
    IN  IF entries = {} THEN EmptyMetrics(leagueId, 0) ELSE CHOOSE m \in entries : TRUE

\* the rows of a league that this step has brought to `status`
Marked(leagueId, status) ==
    { r \in jobs' : /\ r.leagueId = leagueId /\ r.status = status
                    /\ \E q \in jobs : q.id = r.id /\ q.status # status }

\* every record a flush inserts carries the rows discovery inserted and the
\* live-odds calls issued during this invocation for the record's league
FlushCountsInsertsAndCalls ==
    \A p \in DOMAIN proc :
        proc[p].pc = "recordMetrics" =>
            \A m \in metrics' \ metrics :
                /\ m.jobsScheduled = tally[p].inserted[m.leagueId]
                /\ m.apiRequests = tally[p].requested[m.leagueId]

\* while the batch is worked on, jobsCompleted and jobsFailed grow by exactly the
\* rows the step marks completed and failed
LoopCountsMarks ==
    \A p \in DOMAIN proc :
        (proc[p].pc \in JobLoopPcs /\ proc'[p].pc \notin {"idle", "rejected"}) =>
            \A l \in DOMAIN tally[p].inserted :
                /\ Counted(proc'[p].metricsMap, l).jobsCompleted
                     = Counted(proc[p].metricsMap, l).jobsCompleted
                       + Cardinality(Marked(l, "completed"))
                /\ Counted(proc'[p].metricsMap, l).jobsFailed
                     = Counted(proc[p].metricsMap, l).jobsFailed
                       + Cardinality(Marked(l, "failed"))

\* C34 as stated: the flushed record of a league holds the rows discovery inserted,
\* the rows marked completed and failed, and the live-odds calls issued (failed ones
\* included) during the invocation.
C34_FlushedMetricsAreAccurate ==
    [][FlushCountsInsertsAndCalls /\ LoopCountsMarks]_vars

\* an updateMatchIndex during which a request of the index load was lost
FaultyLoadStep ==
    /\ now' = now
    /\ reply'.op = "updateMatchIndex"
    /\ reply'.args[1] \/ reply'.args[2] > 0

\* C35 as stated: when a request is lost while updateMatchIndex loads a stored
\* non-empty match index, the call either raises the fault or works on the
\* stored index: no entry of the stored index disappears.
C35_LoadFaultIsNotAbsence ==
    [][(FaultyLoadStep /\ Len(MatchEntries(indexes)) > 0) =>
          \/ reply'.threw
          \/ \A e \in Range(MatchEntries(indexes)) :
                \E e2 \in Range(MatchEntries(indexes')) : e2.matchKey = e.matchKey]_vars

\* delay slept after the failed attempt number i
ExpectedDelay(i) ==
    CASE i = 1 -> 1000 [] i = 2 -> 2000 [] i = 3 -> 4000 [] i = 4 -> 8000 [] OTHER -> 10000

\* attempts made so far, the sleeps between them and the outcome delivered
RetryBounded ==
    \A w \in DOMAIN call :
        /\ call[w].made <= call[w].maxRetries
        /\ call[w].pc # "idle" =>
              call[w].maxRetries = IF call[w].configured = 0 THEN 3 ELSE call[w].configured
        /\ \A i \in 1..Len(call[w].waited) : call[w].waited[i] = ExpectedDelay(i)
        /\ Len(call[w].waited) = IF call[w].pc = "attempt" \/ call[w].made = 0
                                 THEN call[w].made ELSE call[w].made - 1
        /\ (call[w].pc = "idle" /\ call[w].made > 0) =>
              /\ reply.op = "withRetry"
              /\ reply.threw => call[w].made = call[w].maxRetries
              /\ reply.args = <<call[w].maxRetries, call[w].made>>

\* a finished call makes no further attempt
RetryStopsAtOutcome ==
    \A w \in DOMAIN call :
        (call[w].pc = "idle" /\ call[w].made > 0 /\ call'[w].made > 0) =>
            call'[w] = call[w]

\* C36: withRetry makes at most maxRetries attempts (3 when not configured),
\* returns at the first attempt that succeeds and makes no further attempt,
\* sleeps min(1000 * 2^(attempt-1), 10000) ms after each failed attempt but the
\* last, throws when the last attempt has failed, and always comes to an end.
C36_WithRetryIsBounded ==
    /\ []RetryBounded
    /\ [][RetryStopsAtOutcome]_vars
    /\ \A w \in {1} : (call[w].pc # "idle") ~> (call[w].pc = "idle")

\* a call configured with six attempts returned at the sixth, after five sleeps
C36_Witness ==
    /\ reply.op = "withRetry" /\ ~reply.threw
    /\ call[1].pc = "idle" /\ call[1].made = 6
    /\ call[1].waited = <<1000, 2000, 4000, 8000, 10000>>

\* the store holds a snapshot under the key of the row's (fixtureId, offsetName, matchDate)
SnapshotStored(objects, r) ==
    \E o \in objects :
        o.key = SnapshotKey(r.leagueId, InferSeasonFromDate(r.matchDate),
                            GetSnapshotId(r.eventId, r.timingOffset, r.matchDate))

\* C37: every completed row has a snapshot location, its snapshot is in the
\* store, and it was there already in the state in which the row was marked.
C37_CompletedRowsHaveTheirSnapshot ==
    /\ [](\A r \in jobs : r.status = "completed" =>
              r.snapshotPath # Null /\ SnapshotStored(store, r))
    /\ [][\A r \in jobs' :
              (r.status = "completed" /\ \E q \in jobs : q.id = r.id /\ q.status # "completed")
                 => SnapshotStored(store, r)]_vars

\* both jobs of a fixture are completed, the second one after a retry
C37_Witness ==
    /\ Cardinality({r \in jobs : r.status = "completed"}) >= 2
    /\ \E r \in jobs : r.status = "completed" /\ r.attempts >= 3

\* C38 as stated: with one executor, the live-odds calls made for a job never
\* exceed one plus the retryJob calls made on it.
C38_OneFetchPerRetry ==
    \A id \in DOMAIN ledger : ledger[id].calls <= 1 + ledger[id].retries

\* C38: with one executor, the live-odds calls made for a job never exceed the
\* number of times it was made pending: the rows discovery inserted for it
\* (one, and one more after each cleanup that deleted its row) plus the
\* retryJob calls made on it.
C38_OneFetchPerPendingSpell ==
    \A id \in DOMAIN ledger : ledger[id].calls <= ledger[id].inserts + ledger[id].retries

\* a job was collected, its row deleted by cleanup and inserted again by a
\* discovery pass, and it was fetched a second time without any retryJob
C38_Witness ==
    \E id \in DOMAIN ledger :
        ledger[id].calls = 2 /\ ledger[id].retries = 0 /\ ledger[id].inserts = 2

\* C39: when executeJobs returns, every job of the batch it selected is
\* completed or failed, none is running or pending, whatever threw on the way
\* (provider, store or a status update); stated of the invocations during which
\* the operator neither retried a job nor ran cleanup.
C39_BatchEndsTerminal ==
    [][\A p \in DOMAIN proc :
          (proc[p].pc = "recordMetrics" /\ proc'[p].pc = "summary" /\ ~tally[p].disturbed) =>
             \A i \in 1..Len(proc[p].dueJobs) :
                \E r \in jobs' : /\ r.id = proc[p].dueJobs[i].id
                                 /\ r.status \in {"completed", "failed"}]_vars

\* the loop over a batch of two is over and nobody interfered: the provider
\* failed on one job, which is failed, and the other is completed
C39_Witness ==
    \E p \in DOMAIN proc :
        /\ proc[p].pc = "recordMetrics" /\ ~tally[p].disturbed
        /\ Len(proc[p].dueJobs) = 2
        /\ \E r1, r2 \in jobs :
              /\ r1.id = proc[p].dueJobs[1].id /\ r2.id = proc[p].dueJobs[2].id
              /\ {r1.status, r2.status} = {"completed", "failed"}
              /\ \E r \in {r1, r2} : r.error \in ProviderErrors

\* C40 as stated: the ids listSnapshots returns, on R2Storage and on
\* LocalStorage, name no index artifact (by_match, by_date, by_team) and no
\* temporary file of a write in progress.
C40_ListReturnsOnlySnapshotIds ==
    /\ (reply.op = "listSnapshots" /\ ~reply.threw) =>
          \A i \in 1..Len(reply.value) :
             reply.value[i] \notin IndexTypes /\ ~EndsWith(reply.value[i], ".tmp")
    /\ reply.op = "localListSnapshots" =>
          \A id \in reply.value :
             id \notin IndexTypes \cup {"index"} /\ ~Includes(id, ".tmp")
====
